---- MODULE Spec2Model ----
(***************************************************************************)
(* A model of terminfo-lean: the parameterized-string expander             *)
(* (src/src/expand.rs) and the terminfo database parser (src/src/parse.rs).*)
(* Bytes are the integers 0..255; characters are one-character strings.    *)
(***************************************************************************)
EXTENDS Integers, Sequences, FiniteSets, TLC

VARIABLES
    workload,           \* which family of inputs the caller draws from
    overflow_checks,    \* build profile: does arithmetic overflow panic ("on") or wrap
                        \* ("off"); "unobserved" until an operation overflows
    static_variables,   \* ExpandContext::static_variables, letters A..Z
    pc,                 \* the caller and expand: "idle", "loop", "returned", "panicked"
    cap,                \* expand: the capability being expanded
    params,             \* expand: the caller's parameter slice
    pos,                \* expand: index of the next byte of cap (1-based)
    state,              \* expand: States
    output,             \* expand: output bytes
    stack,              \* expand: operand stack, top is the last element
    dynamic_variables,  \* expand: dynamic variables a..z
    mparams,            \* expand: local copy of the parameters, padded to 9
    incremented,        \* expand: %i already applied
    result,             \* what the last call returned
    calls,              \* number of expand calls made on the context
    buffer,             \* parse: the input buffer
    parsed,             \* parse: its terminfo, the position of its reader, its result
    search              \* search_directories: the environment, the iterator of the
                        \* default directories, the directories collected so far

expand_vars == <<static_variables, pc, cap, params, pos, state, output, stack,
                 dynamic_variables, mparams, incremented, result, calls>>
parse_vars == <<buffer, parsed>>
locate_vars == <<search>>
vars == <<workload, overflow_checks, expand_vars, parse_vars, locate_vars>>

----------------------------------------------------------------------------
(* Bytes and characters *)

AsciiPrintable ==
    << " ", "!", "\"", "#", "$", "%", "&", "'", "(", ")", "*", "+", ",", "-",
       ".", "/", "0", "1", "2", "3", "4", "5", "6", "7", "8", "9", ":", ";",
       "<", "=", ">", "?", "@", "A", "B", "C", "D", "E", "F", "G", "H", "I",
       "J", "K", "L", "M", "N", "O", "P", "Q", "R", "S", "T", "U", "V", "W",
       "X", "Y", "Z", "[", "\\", "]", "^", "_", "\\x96", "a", "b", "c", "d", "e",
       "f", "g", "h", "i", "j", "k", "l", "m", "n", "o", "p", "q", "r", "s",
       "t", "u", "v", "w", "x", "y", "z", "{", "|", "}", "~" >>

\* the printable ASCII characters are the bytes 32..126
OrdTable ==
    [ch \in {AsciiPrintable[i] : i \in 1..Len(AsciiPrintable)} |->
        31 + (CHOOSE i \in 1..Len(AsciiPrintable) : AsciiPrintable[i] = ch)]

\* b'x': the byte of an ASCII character
Ord(ch) == OrdTable[ch]

\* c as char: a byte outside printable ASCII (and the grave accent, which has no
\* string literal here) is a character that equals no character literal of the
\* source
Chr(c) ==
    IF c >= 32 /\ c <= 31 + Len(AsciiPrintable)
    THEN AsciiPrintable[c - 31]
    ELSE "\\x" \o ToString(c)

\* b"...": the bytes of a sequence of characters
Bytes(chars) == [i \in 1..Len(chars) |-> Ord(chars[i])]

IsDigit(cur) == cur \in {"0", "1", "2", "3", "4", "5", "6", "7", "8", "9"}

IsUpper(c) == Ord("A") <= c /\ c <= Ord("Z")

IsLower(c) == Ord("a") <= c /\ c <= Ord("z")

\* cur as u16 - '0' as u16
DigitValue(c) == c - Ord("0")

Repeat(b, n) == IF n <= 0 THEN << >> ELSE [i \in 1..n |-> b]

----------------------------------------------------------------------------
(* Parameter and 32-bit arithmetic *)

Number(n) == [tag |-> "Number", n |-> n]

String(s) == [tag |-> "String", s |-> s]

IsNumber(p) == p.tag = "Number"

IsString(p) == p.tag = "String"

MaxI32 == 2147483647

MinI32 == (-MaxI32) - 1

MaxU16 == 65535

\* x + y does not fit in an i32
AddOverflows(x, y) ==
    \/ y > 0 /\ x > MaxI32 - y
    \/ y < 0 /\ x < MinI32 - y

\* x.wrapping_add(y)
WrapAdd(x, y) ==
    IF y > 0 /\ x > MaxI32 - y THEN (x + MinI32) + (y + MinI32)
    ELSE IF y < 0 /\ x < MinI32 - y THEN (x - MinI32) + (y - MinI32)
    ELSE x + y

SubOverflows(x, y) ==
    IF y = MinI32 THEN x >= 0 ELSE AddOverflows(x, -y)

\* x.wrapping_sub(y)
WrapSub(x, y) ==
    IF y = MinI32 THEN WrapAdd(WrapAdd(x, MaxI32), 1) ELSE WrapAdd(x, -y)

\* the 32 bits of the two's complement pattern of x, least significant first
RECURSIVE BitsOf(_, _)
BitsOf(x, n) == IF n = 0 THEN << >> ELSE <<x % 2>> \o BitsOf(x \div 2, n - 1)

Bits32(x) == BitsOf(x, 32)

\* the i32 whose two's complement pattern is bits
RECURSIVE FromBits(_)
FromBits(bits) ==
    IF Len(bits) = 1 THEN -bits[1]
    ELSE bits[1] + 2 * FromBits(Tail(bits))

\* the four bytes of the two's complement pattern of x, least significant first
Limbs(x) == [k \in 0..3 |-> (x \div (256 ^ k)) % 256]

\* the low four bytes of the product of two patterns
MulLimbs(a, b) ==
    LET s0 == a[0] * b[0]
        s1 == a[0] * b[1] + a[1] * b[0] + (s0 \div 256)
        s2 == a[0] * b[2] + a[1] * b[1] + a[2] * b[0] + (s1 \div 256)
        s3 == a[0] * b[3] + a[1] * b[2] + a[2] * b[1] + a[3] * b[0] + (s2 \div 256)
    IN  <<s0 % 256, s1 % 256, s2 % 256, s3 % 256>>

\* the i32 whose pattern is the four bytes r
FromLimbs(r) ==
    r[1] + 256 * r[2] + 65536 * r[3] + 16777216 * (IF r[4] >= 128 THEN r[4] - 256 ELSE r[4])

\* x.wrapping_mul(y)
WrapMul(x, y) == FromLimbs(MulLimbs(Limbs(x), Limbs(y)))

\* x / y of Rust (truncating), for y # 0 and not (x = MinI32 and y = -1)
TruncDiv(x, y) ==
    LET pos_div(a, b) == IF a % b # 0 /\ a < 0 THEN (a \div b) + 1 ELSE a \div b
    IN  IF y > 0 THEN pos_div(x, y)
        ELSE IF y = MinI32 THEN (IF x = MinI32 THEN 1 ELSE 0)
        ELSE -pos_div(x, -y)

\* x % y of Rust (sign of the dividend), same domain as TruncDiv
TruncRem(x, y) == x - y * TruncDiv(x, y)

MulOverflows(x, y) ==
    /\ x # 0
    /\ y # 0
    /\ \/ x = -1 /\ y = MinI32
       \/ y = -1 /\ x = MinI32
       \/ /\ ~(x = -1 /\ y = MinI32)
          /\ ~(y = -1 /\ x = MinI32)
          /\ TruncDiv(WrapMul(x, y), x) # y

\* a bitwise operation on the two's complement bits, f its truth table
BitOp(x, y, f) ==
    LET bx == Bits32(x)
        by == Bits32(y)
    IN  FromBits([i \in 1..32 |-> f[bx[i], by[i]]])

BitOr(x, y) == BitOp(x, y, [a, b \in 0..1 |-> IF a + b > 0 THEN 1 ELSE 0])

BitAnd(x, y) == BitOp(x, y, [a, b \in 0..1 |-> a * b])

BitXor(x, y) == BitOp(x, y, [a, b \in 0..1 |-> (a + b) % 2])

\* !x
BitNot(x) == (-1) - x

\* n as u8
AsU8(n) == n % 256

----------------------------------------------------------------------------
(* format: printf-style conversion of one stack value *)

None == [some |-> FALSE]

Some(v) == [some |-> TRUE, v |-> v]

\* Flags::default()
DefaultFlags ==
    [width |-> 0, precision |-> None, alternate |-> FALSE, left |-> FALSE,
     sign |-> FALSE, space |-> FALSE]

Ok(v) == [tag |-> "Ok", value |-> v]

Err(kind, ch) == [tag |-> "Err", kind |-> kind, ch |-> ch]

\* the process aborts: an arithmetic panic of Rust
Panic == [tag |-> "Panic"]

\* the decimal digits of |n|, for n <= 0
RECURSIVE DecAbs(_)
DecAbs(n) ==
    LET digit == (10 - (n % 10)) % 10
        rest == (n + digit) \div 10
    IN  IF rest = 0 THEN <<Ord("0") + digit>>
        ELSE DecAbs(rest) \o <<Ord("0") + digit>>

DecDigits(d) == IF d < 0 THEN DecAbs(d) ELSE DecAbs(-d)

\* the digits of the u32 pattern of d in radix 2^k, as characters of digits
RadixDigits(d, k, digits) ==
    LET bits == Bits32(d)
        ndig == (32 + k - 1) \div k
        bit(i) == IF i <= 32 THEN bits[i] ELSE 0
        RECURSIVE group(_, _)
        group(j, i) == IF i > k THEN 0 ELSE bit(j * k + i) + 2 * group(j, i + 1)
        all == [j \in 1..ndig |-> group(ndig - j, 1)]
        lead == CHOOSE n \in 1..ndig :
                    /\ n = ndig \/ all[n] # 0
                    /\ \A i \in 1..(n - 1) : all[i] = 0
    IN  [j \in 1..(ndig - lead + 1) |-> Ord(digits[all[lead + j - 1] + 1])]

LowerHex == <<"0", "1", "2", "3", "4", "5", "6", "7", "8", "9", "a", "b", "c", "d", "e", "f">>

UpperHex == <<"0", "1", "2", "3", "4", "5", "6", "7", "8", "9", "A", "B", "C", "D", "E", "F">>

\* {:0w$} of Rust for unsigned digits: zeros on the left up to w characters
ZeroPad(digs, w) == Repeat(Ord("0"), w - Len(digs)) \o digs

\* {d:0w$} and {d:+0w$} of Rust: the sign counts in the w characters
SignedZeroPad(d, w, plus) ==
    IF d < 0 THEN <<Ord("-")>> \o ZeroPad(DecDigits(d), w - 1)
    ELSE IF plus THEN <<Ord("+")>> \o ZeroPad(DecDigits(d), w - 1)
    ELSE ZeroPad(DecDigits(d), w)

\* {d} and {d:+}
Signed(d, plus) == SignedZeroPad(d, 0, plus)

\* precision + 1 on u16: None where the build panics on overflow
PrecisionPlusOne(precision, checks) ==
    IF precision < MaxU16 THEN Some(precision + 1)
    ELSE IF checks THEN None
    ELSE Some(0)

\* a decimal conversion whose precision counts the sign character
FormatDecimalSignCounted(d, flags, checks) ==
    IF flags.precision.some THEN
        LET precision == flags.precision.v
        IN  IF flags.sign THEN Ok(SignedZeroPad(d, precision, TRUE))
            ELSE IF d < 0 THEN Ok(SignedZeroPad(d, precision, FALSE))
            ELSE IF flags.space THEN
                Ok(<<Ord(" ")>> \o SignedZeroPad(d, IF precision = 0 THEN 0 ELSE precision - 1, FALSE))
            ELSE Ok(SignedZeroPad(d, precision, FALSE))
    ELSE
        IF flags.sign THEN Ok(Signed(d, TRUE))
        ELSE IF d < 0 THEN Ok(Signed(d, FALSE))
        ELSE IF flags.space THEN Ok(<<Ord(" ")>> \o Signed(d, FALSE))
        ELSE Ok(Signed(d, FALSE))

FormatDecimal(d, flags, checks) ==
    IF flags.precision.some THEN
        LET precision == flags.precision.v
            plus1 == PrecisionPlusOne(precision, checks)
        IN  IF flags.sign THEN
                (IF plus1.some THEN Ok(SignedZeroPad(d, plus1.v, TRUE)) ELSE Panic)
            ELSE IF d < 0 THEN
                (IF plus1.some THEN Ok(SignedZeroPad(d, plus1.v, FALSE)) ELSE Panic)
            ELSE IF flags.space THEN
                Ok(<<Ord(" ")>> \o SignedZeroPad(d, precision, FALSE))
            ELSE Ok(SignedZeroPad(d, precision, FALSE))
    ELSE
        IF flags.sign THEN Ok(Signed(d, TRUE))
        ELSE IF d < 0 THEN Ok(Signed(d, FALSE))
        ELSE IF flags.space THEN Ok(<<Ord(" ")>> \o Signed(d, FALSE))
        ELSE Ok(Signed(d, FALSE))

\* saturating_sub(1) on u16
SaturatingSubOne(n) == IF n = 0 THEN 0 ELSE n - 1

FormatOctal(d, flags) ==
    LET digs == RadixDigits(d, 3, LowerHex)
    IN  IF flags.precision.some THEN
            IF flags.alternate
            THEN <<Ord("0")>> \o ZeroPad(digs, SaturatingSubOne(flags.precision.v))
            ELSE ZeroPad(digs, flags.precision.v)
        ELSE
            IF flags.alternate THEN <<Ord("0")>> \o digs ELSE digs

\* a hex conversion that prefixes the value 0 as well
FormatHexPrefixZero(d, flags, digits, prefix) ==
    LET digs == RadixDigits(d, 4, digits)
    IN  IF flags.precision.some THEN
            IF flags.alternate
            THEN Bytes(prefix) \o ZeroPad(digs, flags.precision.v)
            ELSE ZeroPad(digs, flags.precision.v)
        ELSE
            IF flags.alternate THEN Bytes(prefix) \o digs ELSE digs

FormatHex(d, flags, digits, prefix) ==
    LET digs == RadixDigits(d, 4, digits)
    IN  IF flags.precision.some THEN
            IF flags.alternate /\ d # 0
            THEN Bytes(prefix) \o ZeroPad(digs, flags.precision.v)
            ELSE ZeroPad(digs, flags.precision.v)
        ELSE
            IF flags.alternate /\ d # 0 THEN Bytes(prefix) \o digs ELSE digs

FormatString(s, flags) ==
    IF flags.precision.some /\ flags.precision.v < Len(s)
    THEN SubSeq(s, 1, flags.precision.v)
    ELSE s

\* a width step that cuts a longer body to the width
PadToWidthOrCut(s, flags) ==
    IF flags.width > Len(s) THEN
        LET n == flags.width - Len(s)
        IN  IF flags.left THEN s \o Repeat(Ord(" "), n)
            ELSE Repeat(Ord(" "), n) \o s
    ELSE IF flags.width > 0 THEN SubSeq(s, 1, flags.width)
    ELSE s

\* the trailing width step of format
PadToWidth(s, flags) ==
    IF flags.width > Len(s) THEN
        LET n == flags.width - Len(s)
        IN  IF flags.left THEN s \o Repeat(Ord(" "), n)
            ELSE Repeat(Ord(" "), n) \o s
    ELSE s

\* the match of format: the body before the width is applied
FormatBody(val, op, flags, checks) ==
    IF IsNumber(val) THEN
        CASE op = "d" -> FormatDecimal(val.n, flags, checks)
          [] op = "o" -> Ok(FormatOctal(val.n, flags))
          [] op = "x" -> Ok(FormatHex(val.n, flags, LowerHex, <<"0", "x">>))
          [] op = "X" -> Ok(FormatHex(val.n, flags, UpperHex, <<"0", "X">>))
          [] OTHER -> Err("FormatTypeMismatch", "")
    ELSE
        IF op = "s" THEN Ok(FormatString(val.s, flags))
        ELSE Err("FormatTypeMismatch", "")

PadResult(body, flags) ==
    IF body.tag = "Ok" THEN Ok(PadToWidth(body.value, flags)) ELSE body

\* format(val, op, flags); checks is the build's overflow checking
Format(val, op, flags, checks) == PadResult(FormatBody(val, op, flags, checks), flags)

----------------------------------------------------------------------------
(* ExpandContext::expand: the per-byte state machine *)

Nothing == [tag |-> "Nothing"]

Delay == [tag |-> "Delay"]

Percent == [tag |-> "Percent"]

SetVar == [tag |-> "SetVar"]

GetVar == [tag |-> "GetVar"]

PushParam == [tag |-> "PushParam"]

CharConstant == [tag |-> "CharConstant"]

CharClose == [tag |-> "CharClose"]

IntConstant(i) == [tag |-> "IntConstant", i |-> i]

FormatPattern(flags, fstate) == [tag |-> "FormatPattern", flags |-> flags, fstate |-> fstate]

SeekIfElse(level) == [tag |-> "SeekIfElse", level |-> level]

SeekIfElsePercent(level) == [tag |-> "SeekIfElsePercent", level |-> level]

SeekIfEnd(level) == [tag |-> "SeekIfEnd", level |-> level]

SeekIfEndPercent(level) == [tag |-> "SeekIfEndPercent", level |-> level]

Running == [tag |-> "Running"]

\* from_fn(|_| Parameter::from(0))
ZeroVariables == [i \in 0..25 |-> Number(0)]

\* stack.pop(): the value and the rest, None on an empty stack
Top(stk) == stk[Len(stk)]

Pop(stk) == SubSeq(stk, 1, Len(stk) - 1)

\* a return that leaves the context as new
ReturnRolledBack(m, r) == [m EXCEPT !.ret = r, !.static_variables = ZeroVariables]

\* return Err(...) out of the loop
Return(m, r) == [m EXCEPT !.ret = r]

Push(m, v) == [m EXCEPT !.stack = Append(@, v)]

Emit(m, bytes) == [m EXCEPT !.output = @ \o bytes]

Goto(m, st) == [m EXCEPT !.state = st]

\* States::Nothing
\* a Nothing state that passes only 7-bit bytes
InNothingSevenBit(m, c) ==
    LET cur == Chr(c)
    IN  IF cur = "%" THEN Goto(m, Percent)
        ELSE IF cur = "$" THEN Goto(m, Delay)
        ELSE IF c < 128 THEN Emit(m, <<c>>)
        ELSE m

InNothing(m, c) ==
    LET cur == Chr(c)
    IN  IF cur = "%" THEN Goto(m, Percent)
        ELSE IF cur = "$" THEN Goto(m, Delay)
        ELSE Emit(m, <<c>>)

\* States::Delay
\* a Delay state in which % starts a directive
InDelayPercent(m, c) ==
    LET m1 == [m EXCEPT !.old_state = Nothing]
    IN  IF Chr(c) = ">" THEN Goto(m1, Nothing)
        ELSE IF Chr(c) = "%" THEN Goto(m1, Percent)
        ELSE m1

\* a Delay state that lasts one byte: > is dropped, any other byte is emitted
InDelaySingle(m, c) ==
    IF Chr(c) = ">" THEN Goto(m, Nothing) ELSE Goto(Emit(m, <<c>>), Nothing)

InDelay(m, c) ==
    LET m1 == [m EXCEPT !.old_state = Nothing]
    IN  IF Chr(c) = ">" THEN Goto(m1, Nothing) ELSE m1

\* a %c that substitutes 0x80 after the truncation to a byte
OpCharTruncateFirst(m, cur) ==
    IF m.stack = << >> THEN Return(m, Err("StackUnderflow", cur))
    ELSE LET arg == Top(m.stack)
             m1 == [m EXCEPT !.stack = Pop(@)]
         IN  IF IsNumber(arg) /\ AsU8(arg.n) = 0 THEN Emit(m1, <<128>>)
             ELSE IF IsNumber(arg) THEN Emit(m1, <<AsU8(arg.n)>>)
             ELSE Return(m1, Err("TypeMismatch", cur))

\* '%' => 'c'
OpChar(m, cur) ==
    IF m.stack = << >> THEN Return(m, Err("StackUnderflow", cur))
    ELSE LET arg == Top(m.stack)
             m1 == [m EXCEPT !.stack = Pop(@)]
         IN  IF IsNumber(arg) /\ arg.n = 0 THEN Emit(m1, <<128>>)
             ELSE IF IsNumber(arg) THEN Emit(m1, <<AsU8(arg.n)>>)
             ELSE Return(m1, Err("TypeMismatch", cur))

\* '%' => 'l'
OpStrLen(m, cur) ==
    IF m.stack = << >> THEN Return(m, Err("StackUnderflow", cur))
    ELSE LET arg == Top(m.stack)
             m1 == [m EXCEPT !.stack = Pop(@)]
         IN  IF IsString(arg) THEN Push(m1, Number(Len(arg.s)))
             ELSE Return(m1, Err("TypeMismatch", cur))

\* x op y for '+' '-' '*' '/' '|' '&' '^' 'm': None where Rust panics
Arith(cur, x, y, checks) ==
    CASE cur = "+" -> IF checks /\ AddOverflows(x, y) THEN None ELSE Some(WrapAdd(x, y))
      [] cur = "-" -> IF checks /\ SubOverflows(x, y) THEN None ELSE Some(WrapSub(x, y))
      [] cur = "*" -> IF checks /\ MulOverflows(x, y) THEN None ELSE Some(WrapMul(x, y))
      [] cur = "/" -> IF y = 0 \/ (x = MinI32 /\ y = -1) THEN None ELSE Some(TruncDiv(x, y))
      [] cur = "|" -> Some(BitOr(x, y))
      [] cur = "&" -> Some(BitAnd(x, y))
      [] cur = "^" -> Some(BitXor(x, y))
      [] cur = "m" -> IF y = 0 \/ (x = MinI32 /\ y = -1) THEN None ELSE Some(TruncRem(x, y))

\* x op y for '=' '<' '>' 'A' 'O'
Compare(cur, x, y) ==
    CASE cur = "=" -> x = y
      [] cur = "<" -> x < y
      [] cur = ">" -> x > y
      [] cur = "A" -> x > 0 /\ y > 0
      [] cur = "O" -> x > 0 \/ y > 0

\* stack.push(Parameter::from(result)), unless computing result panicked
PushOrPanic(m, r) == IF r.some THEN Push(m, Number(r.v)) ELSE Return(m, Panic)

\* binary operators that take the value popped first as the left operand
OpBinarySwapped(m, cur, checks) ==
    LET n == Len(m.stack)
        m1 == [m EXCEPT !.stack = SubSeq(@, 1, n - 2)]
    IN  IF n < 2 THEN Return([m EXCEPT !.stack = << >>], Err("StackUnderflow", cur))
        ELSE LET x == m.stack[n]
                 y == m.stack[n - 1]
             IN  IF IsNumber(y) /\ IsNumber(x) THEN
                     IF cur \in {"=", "<", ">", "A", "O"}
                     THEN Push(m1, Number(IF Compare(cur, x.n, y.n) THEN 1 ELSE 0))
                     ELSE PushOrPanic(m1, Arith(cur, x.n, y.n, checks))
                 ELSE Return(m1, Err("TypeMismatch", cur))

\* match (stack.pop(), stack.pop()) of the binary operators: both pops are made
\* before the match
OpBinary(m, cur, checks) ==
    LET n == Len(m.stack)
        m1 == [m EXCEPT !.stack = SubSeq(@, 1, n - 2)]
    IN  IF n < 2 THEN Return([m EXCEPT !.stack = << >>], Err("StackUnderflow", cur))
        ELSE LET y == m.stack[n]
                 x == m.stack[n - 1]
             IN  IF IsNumber(y) /\ IsNumber(x) THEN
                     IF cur \in {"=", "<", ">", "A", "O"}
                     THEN Push(m1, Number(IF Compare(cur, x.n, y.n) THEN 1 ELSE 0))
                     ELSE PushOrPanic(m1, Arith(cur, x.n, y.n, checks))
                 ELSE Return(m1, Err("TypeMismatch", cur))

\* '%' => '!' | '~'
OpUnary(m, cur) ==
    IF m.stack = << >> THEN Return(m, Err("StackUnderflow", cur))
    ELSE LET arg == Top(m.stack)
             m1 == [m EXCEPT !.stack = Pop(@)]
         IN  IF IsNumber(arg) THEN
                 Push(m1, Number(IF cur = "!" THEN (IF arg.n > 0 THEN 0 ELSE 1)
                                 ELSE BitNot(arg.n)))
             ELSE Return(m1, Err("TypeMismatch", cur))

\* '%' => 'i'
\* an increment that does not look at the incremented flag
OpIncrementEvery(m, cur, checks) ==
    IF IsNumber(m.mparams[1]) /\ IsNumber(m.mparams[2]) THEN
        LET x == m.mparams[1].n
            y == m.mparams[2].n
        IN  IF checks /\ (AddOverflows(x, 1) \/ AddOverflows(y, 1)) THEN Return(m, Panic)
            ELSE [m EXCEPT !.mparams[1] = Number(WrapAdd(x, 1)),
                           !.mparams[2] = Number(WrapAdd(y, 1)),
                           !.incremented = TRUE]
    ELSE Return(m, Err("TypeMismatch", cur))

OpIncrement(m, cur, checks) ==
    IF IsNumber(m.mparams[1]) /\ IsNumber(m.mparams[2]) THEN
        IF ~m.incremented THEN
            LET x == m.mparams[1].n
                y == m.mparams[2].n
            IN  IF checks /\ AddOverflows(x, 1) THEN Return(m, Panic)
                ELSE IF checks /\ AddOverflows(y, 1)
                THEN Return([m EXCEPT !.mparams[1] = Number(WrapAdd(x, 1))], Panic)
                ELSE [m EXCEPT !.mparams[1] = Number(WrapAdd(x, 1)),
                               !.mparams[2] = Number(WrapAdd(y, 1)),
                               !.incremented = TRUE]
        ELSE m
    ELSE Return(m, Err("TypeMismatch", cur))

\* output.extend(format(arg, cur, flags)?)
EmitOrReturn(m, res) == IF res.tag = "Ok" THEN Emit(m, res.value) ELSE Return(m, res)

\* pop one value, format it and append it to the output
\* a conversion that takes the oldest value of the stack
PopAndFormatOldest(m, cur, flags, checks) ==
    IF m.stack = << >> THEN Return(m, Err("StackUnderflow", cur))
    ELSE EmitOrReturn([m EXCEPT !.stack = Tail(@)], Format(Head(m.stack), cur, flags, checks))

PopAndFormat(m, cur, flags, checks) ==
    IF m.stack = << >> THEN Return(m, Err("StackUnderflow", cur))
    ELSE EmitOrReturn([m EXCEPT !.stack = Pop(@)], Format(Top(m.stack), cur, flags, checks))

\* '%' => ':' | '#' | ' ' | '.' | '0'..='9'
OpFormatEntry(m, cur, c) ==
    CASE cur = ":" -> Goto(m, FormatPattern(DefaultFlags, "Flags"))
      [] cur = "#" -> Goto(m, FormatPattern([DefaultFlags EXCEPT !.alternate = TRUE], "Flags"))
      [] cur = " " -> Goto(m, FormatPattern([DefaultFlags EXCEPT !.space = TRUE], "Flags"))
      [] cur = "." -> Goto(m, FormatPattern(DefaultFlags, "Precision"))
      [] OTHER -> Goto(m, FormatPattern([DefaultFlags EXCEPT !.width = DigitValue(c)], "Width"))

\* a %t that takes the then-branch for the positive numbers only
OpThenPositive(m, cur) ==
    IF m.stack = << >> THEN Return(m, Err("StackUnderflow", cur))
    ELSE LET arg == Top(m.stack)
             m1 == [m EXCEPT !.stack = Pop(@)]
         IN  IF IsNumber(arg) /\ arg.n <= 0 THEN Goto(m1, SeekIfElse(0))
             ELSE IF IsNumber(arg) THEN m1
             ELSE Return(m1, Err("TypeMismatch", cur))

\* '%' => 't'
OpThen(m, cur) ==
    IF m.stack = << >> THEN Return(m, Err("StackUnderflow", cur))
    ELSE LET arg == Top(m.stack)
             m1 == [m EXCEPT !.stack = Pop(@)]
         IN  IF IsNumber(arg) /\ arg.n = 0 THEN Goto(m1, SeekIfElse(0))
             ELSE IF IsNumber(arg) THEN m1
             ELSE Return(m1, Err("TypeMismatch", cur))

\* a %e that searches for the next %e or %; as a failed %t does
OpElseSeekElse(m) == Goto(m, SeekIfElse(0))

\* '%' => 'e'
OpElse(m) == Goto(m, SeekIfEnd(0))

\* States::Percent
InPercent(m, c, checks) ==
    LET cur == Chr(c)
    IN  CASE cur = "%" -> Goto(Emit(m, <<c>>), Nothing)
          [] cur = "c" -> OpChar(m, cur)
          [] cur = "p" -> Goto(m, PushParam)
          [] cur = "P" -> Goto(m, SetVar)
          [] cur = "g" -> Goto(m, GetVar)
          [] cur = "'" -> Goto(m, CharConstant)
          [] cur = "{" -> Goto(m, IntConstant(0))
          [] cur = "l" -> OpStrLen(m, cur)
          [] cur \in {"+", "-", "*", "/", "|", "&", "^", "m"} -> OpBinary(m, cur, checks)
          [] cur \in {"=", ">", "<", "A", "O"} -> OpBinary(m, cur, checks)
          [] cur \in {"!", "~"} -> OpUnary(m, cur)
          [] cur = "i" -> OpIncrement(m, cur, checks)
          [] cur \in {"d", "o", "x", "X", "s"} -> PopAndFormat(m, cur, DefaultFlags, checks)
          [] cur \in {":", "#", " ", "."} \/ IsDigit(cur) -> OpFormatEntry(m, cur, c)
          [] cur \in {"?", ";"} -> m
          [] cur = "t" -> OpThen(m, cur)
          [] cur = "e" -> OpElse(m)
          [] OTHER -> Return(m, Err("UnrecognizedFormatOption", cur))

\* a push that rejects a position beyond the caller's slice
InPushParamStrict(m, c) ==
    LET cur == Chr(c)
    IN  IF cur \in {"1", "2", "3", "4", "5", "6", "7", "8", "9"} /\ c - Ord("0") <= Len(params)
        THEN Push(m, m.mparams[(c - Ord("1")) + 1])
        ELSE Return(m, Err("InvalidParameterIndex", cur))

\* States::PushParam
InPushParam(m, c) ==
    LET cur == Chr(c)
    IN  IF cur \in {"1", "2", "3", "4", "5", "6", "7", "8", "9"}
        THEN Push(m, m.mparams[(c - Ord("1")) + 1])
        ELSE Return(m, Err("InvalidParameterIndex", cur))

\* a SetVar that keeps every variable in the context, lower-case ones too
InSetVarAllStatic(m, c) ==
    IF m.stack = << >> THEN Return(m, Err("StackUnderflow", "P"))
    ELSE LET arg == Top(m.stack)
             m1 == [m EXCEPT !.stack = Pop(@)]
         IN  IF IsUpper(c) THEN [m1 EXCEPT !.static_variables[c - Ord("A")] = arg]
             ELSE IF IsLower(c) THEN [m1 EXCEPT !.static_variables[c - Ord("a")] = arg]
             ELSE Return(m1, Err("InvalidVariableName", Chr(c)))

\* a %P that looks at the name of the variable before it pops
InSetVarNameFirst(m, c) ==
    IF ~IsUpper(c) /\ ~IsLower(c) THEN Return(m, Err("InvalidVariableName", Chr(c)))
    ELSE IF m.stack = << >> THEN Return(m, Err("StackUnderflow", "P"))
    ELSE LET arg == Top(m.stack)
             m1 == [m EXCEPT !.stack = Pop(@)]
         IN  IF IsUpper(c) THEN [m1 EXCEPT !.static_variables[c - Ord("A")] = arg]
             ELSE [m1 EXCEPT !.dynamic_variables[c - Ord("a")] = arg]

\* States::SetVar
InSetVar(m, c) ==
    IF m.stack = << >> THEN Return(m, Err("StackUnderflow", "P"))
    ELSE LET arg == Top(m.stack)
             m1 == [m EXCEPT !.stack = Pop(@)]
         IN  IF IsUpper(c) THEN [m1 EXCEPT !.static_variables[c - Ord("A")] = arg]
             ELSE IF IsLower(c) THEN [m1 EXCEPT !.dynamic_variables[c - Ord("a")] = arg]
             ELSE Return(m1, Err("InvalidVariableName", Chr(c)))

\* States::GetVar
InGetVar(m, c) ==
    IF IsUpper(c) THEN Push(m, m.static_variables[c - Ord("A")])
    ELSE IF IsLower(c) THEN Push(m, m.dynamic_variables[c - Ord("a")])
    ELSE Return(m, Err("InvalidVariableName", Chr(c)))

\* States::CharConstant
InCharConstant(m, c) == Goto(Push(m, Number(c)), CharClose)

\* States::CharClose
InCharClose(m, c) ==
    IF Chr(c) # "'" THEN Return(m, Err("MalformedCharacterConstant", "")) ELSE m

\* an integer constant that saturates instead of reporting the overflow
InIntConstantSaturating(m, c) ==
    LET cur == Chr(c)
        i == m.state.i
    IN  IF cur = "}" THEN Goto(Push(m, Number(i)), Nothing)
        ELSE IF IsDigit(cur) THEN
            [m EXCEPT !.state = IntConstant(IF i > (MaxI32 - DigitValue(c)) \div 10 THEN MaxI32
                                            ELSE i * 10 + DigitValue(c)),
                      !.old_state = Nothing]
        ELSE Return(m, Err("MalformedIntegerConstant", ""))

\* States::IntConstant(i)
InIntConstant(m, c) ==
    LET cur == Chr(c)
        i == m.state.i
    IN  IF cur = "}" THEN Goto(Push(m, Number(i)), Nothing)
        ELSE IF IsDigit(cur) THEN
            \* checked_mul(10).and_then(checked_add(digit))
            IF i > (MaxI32 - DigitValue(c)) \div 10
            THEN Return(m, Err("IntegerConstantOverflow", ""))
            ELSE [m EXCEPT !.state = IntConstant(i * 10 + DigitValue(c)),
                           !.old_state = Nothing]
        ELSE Return(m, Err("MalformedIntegerConstant", ""))

\* a format pattern whose width and precision stay at 65535 instead of
\* reporting the overflow
InFormatPatternSaturating(m, c, checks) ==
    LET cur == Chr(c)
        flags == m.state.flags
        fstate == m.state.fstate
        m0 == [m EXCEPT !.old_state = Nothing]
        with(f, fs) == Goto(m0, FormatPattern(f, fs))
        capped(n) == IF n > MaxU16 THEN MaxU16 ELSE n
    IN  CASE cur \in {"d", "o", "x", "X", "s"} ->
                [PopAndFormat(m0, cur, flags, checks)
                    EXCEPT !.old_state = FormatPattern(flags, fstate)]
          [] fstate = "Flags" /\ cur = "#" -> with([flags EXCEPT !.alternate = TRUE], fstate)
          [] fstate = "Flags" /\ cur = "-" -> with([flags EXCEPT !.left = TRUE], fstate)
          [] fstate = "Flags" /\ cur = "+" -> with([flags EXCEPT !.sign = TRUE], fstate)
          [] fstate = "Flags" /\ cur = " " -> with([flags EXCEPT !.space = TRUE], fstate)
          [] fstate = "Flags" /\ IsDigit(cur) ->
                with([flags EXCEPT !.width = DigitValue(c)], "Width")
          [] fstate = "Width" /\ IsDigit(cur) ->
                with([flags EXCEPT !.width = capped(flags.width * 10 + DigitValue(c))], fstate)
          [] fstate \in {"Width", "Flags"} /\ cur = "." -> with(flags, "Precision")
          [] fstate = "Precision" /\ IsDigit(cur) ->
                LET old == IF flags.precision.some THEN flags.precision.v ELSE 0
                IN  with([flags EXCEPT !.precision = Some(capped(old * 10 + DigitValue(c)))],
                         fstate)
          [] OTHER -> Return(m0, Err("UnrecognizedFormatOption", cur))

\* a format pattern that reads - and + as flags after the width and the
\* precision too
InFormatPatternFlagsAnywhere(m, c, checks) ==
    LET cur == Chr(c)
        flags == m.state.flags
        fstate == m.state.fstate
        m0 == [m EXCEPT !.old_state = Nothing]
        with(f, fs) == Goto(m0, FormatPattern(f, fs))
    IN  CASE cur \in {"d", "o", "x", "X", "s"} ->
                [PopAndFormat(m0, cur, flags, checks)
                    EXCEPT !.old_state = FormatPattern(flags, fstate)]
          [] fstate = "Flags" /\ cur = "#" -> with([flags EXCEPT !.alternate = TRUE], fstate)
          [] cur = "-" -> with([flags EXCEPT !.left = TRUE], fstate)
          [] cur = "+" -> with([flags EXCEPT !.sign = TRUE], fstate)
          [] fstate = "Flags" /\ cur = " " -> with([flags EXCEPT !.space = TRUE], fstate)
          [] fstate = "Flags" /\ IsDigit(cur) ->
                with([flags EXCEPT !.width = DigitValue(c)], "Width")
          [] fstate = "Width" /\ IsDigit(cur) ->
                IF flags.width * 10 + DigitValue(c) > MaxU16
                THEN Return(m0, Err("FormatWidthOverflow", ""))
                ELSE with([flags EXCEPT !.width = flags.width * 10 + DigitValue(c)], fstate)
          [] fstate \in {"Width", "Flags"} /\ cur = "." -> with(flags, "Precision")
          [] fstate = "Precision" /\ IsDigit(cur) ->
                LET old == IF flags.precision.some THEN flags.precision.v ELSE 0
                IN  IF old * 10 + DigitValue(c) > MaxU16
                    THEN Return(m0, Err("FormatPrecisionOverflow", ""))
                    ELSE with([flags EXCEPT !.precision = Some(old * 10 + DigitValue(c))],
                              fstate)
          [] OTHER -> Return(m0, Err("UnrecognizedFormatOption", cur))

\* States::FormatPattern(flags, fstate)
InFormatPattern(m, c, checks) ==
    LET cur == Chr(c)
        flags == m.state.flags
        fstate == m.state.fstate
        m0 == [m EXCEPT !.old_state = Nothing]
        with(f, fs) == Goto(m0, FormatPattern(f, fs))
    IN  CASE cur \in {"d", "o", "x", "X", "s"} ->
                [PopAndFormat(m0, cur, flags, checks)
                    EXCEPT !.old_state = FormatPattern(flags, fstate)]
          [] fstate = "Flags" /\ cur = "#" -> with([flags EXCEPT !.alternate = TRUE], fstate)
          [] fstate = "Flags" /\ cur = "-" -> with([flags EXCEPT !.left = TRUE], fstate)
          [] fstate = "Flags" /\ cur = "+" -> with([flags EXCEPT !.sign = TRUE], fstate)
          [] fstate = "Flags" /\ cur = " " -> with([flags EXCEPT !.space = TRUE], fstate)
          [] fstate = "Flags" /\ IsDigit(cur) ->
                with([flags EXCEPT !.width = DigitValue(c)], "Width")
          [] fstate = "Width" /\ IsDigit(cur) ->
                IF flags.width * 10 + DigitValue(c) > MaxU16
                THEN Return(m0, Err("FormatWidthOverflow", ""))
                ELSE with([flags EXCEPT !.width = flags.width * 10 + DigitValue(c)], fstate)
          [] fstate \in {"Width", "Flags"} /\ cur = "." -> with(flags, "Precision")
          [] fstate = "Precision" /\ IsDigit(cur) ->
                LET old == IF flags.precision.some THEN flags.precision.v ELSE 0
                IN  IF old * 10 + DigitValue(c) > MaxU16
                    THEN Return(m0, Err("FormatPrecisionOverflow", ""))
                    ELSE with([flags EXCEPT !.precision = Some(old * 10 + DigitValue(c))],
                              fstate)
          [] OTHER -> Return(m0, Err("UnrecognizedFormatOption", cur))

\* States::SeekIfElse(level)
InSeekIfElse(m, c) ==
    LET m1 == IF Chr(c) = "%" THEN Goto(m, SeekIfElsePercent(m.state.level)) ELSE m
    IN  [m1 EXCEPT !.old_state = Nothing]

\* a search for %e that takes the first %e at any nesting level
InSeekIfElsePercentAnyLevel(m, c) ==
    LET cur == Chr(c)
        level == m.state.level
    IN  IF cur = ";" THEN
            (IF level = 0 THEN Goto(m, Nothing) ELSE Goto(m, SeekIfElse(level - 1)))
        ELSE IF cur = "e" THEN Goto(m, Nothing)
        ELSE IF cur = "?" THEN Goto(m, SeekIfElse(level + 1))
        ELSE Goto(m, SeekIfElse(level))

\* States::SeekIfElsePercent(level)
InSeekIfElsePercent(m, c) ==
    LET cur == Chr(c)
        level == m.state.level
    IN  IF cur = ";" THEN
            (IF level = 0 THEN Goto(m, Nothing) ELSE Goto(m, SeekIfElse(level - 1)))
        ELSE IF cur = "e" /\ level = 0 THEN Goto(m, Nothing)
        ELSE IF cur = "?" THEN Goto(m, SeekIfElse(level + 1))
        ELSE Goto(m, SeekIfElse(level))

\* States::SeekIfEnd(level)
InSeekIfEnd(m, c) ==
    LET m1 == IF Chr(c) = "%" THEN Goto(m, SeekIfEndPercent(m.state.level)) ELSE m
    IN  [m1 EXCEPT !.old_state = Nothing]

\* a search for %; that rejects the bytes that are no directive
InSeekIfEndPercentStrict(m, c) ==
    LET cur == Chr(c)
        level == m.state.level
    IN  IF cur = ";" THEN
            (IF level = 0 THEN Goto(m, Nothing) ELSE Goto(m, SeekIfEnd(level - 1)))
        ELSE IF cur = "?" THEN Goto(m, SeekIfEnd(level + 1))
        ELSE IF cur \in {"Y", "/", "P"} THEN
            (IF cur = "Y" THEN Return(m, Err("UnrecognizedFormatOption", cur))
             ELSE Return(m, Err("StackUnderflow", cur)))
        ELSE Goto(m, SeekIfEnd(level))

\* States::SeekIfEndPercent(level)
InSeekIfEndPercent(m, c) ==
    LET cur == Chr(c)
        level == m.state.level
    IN  IF cur = ";" THEN
            (IF level = 0 THEN Goto(m, Nothing) ELSE Goto(m, SeekIfEnd(level - 1)))
        ELSE IF cur = "?" THEN Goto(m, SeekIfEnd(level + 1))
        ELSE Goto(m, SeekIfEnd(level))

\* match state { ... }
Dispatch(m, c, checks) ==
    CASE m.state.tag = "Nothing" -> InNothing(m, c)
      [] m.state.tag = "Delay" -> InDelay(m, c)
      [] m.state.tag = "Percent" -> InPercent(m, c, checks)
      [] m.state.tag = "PushParam" -> InPushParam(m, c)
      [] m.state.tag = "SetVar" -> InSetVar(m, c)
      [] m.state.tag = "GetVar" -> InGetVar(m, c)
      [] m.state.tag = "CharConstant" -> InCharConstant(m, c)
      [] m.state.tag = "CharClose" -> InCharClose(m, c)
      [] m.state.tag = "IntConstant" -> InIntConstant(m, c)
      [] m.state.tag = "FormatPattern" -> InFormatPattern(m, c, checks)
      [] m.state.tag = "SeekIfElse" -> InSeekIfElse(m, c)
      [] m.state.tag = "SeekIfElsePercent" -> InSeekIfElsePercent(m, c)
      [] m.state.tag = "SeekIfEnd" -> InSeekIfEnd(m, c)
      [] m.state.tag = "SeekIfEndPercent" -> InSeekIfEndPercent(m, c)

\* a loop end that leaves the state as the match left it
ResetStateNever(m) == m

\* if state == old_state { state = States::Nothing; }
ResetState(m) == IF m.state = m.old_state THEN Goto(m, Nothing) ELSE m

\* the end of the loop body, reached unless the match returned
EndOfBody(m) == IF m.ret = Running THEN ResetState(m) ELSE m

\* one iteration of the loop over the bytes of cap
LoopBody(m, c, checks) ==
    EndOfBody(Dispatch([m EXCEPT !.old_state = m.state], c, checks))

\* while mparams.len() < 9 { mparams.push(Parameter::from(0)); }
PadParams(ps) ==
    IF Len(ps) < 9 THEN ps \o [i \in 1..(9 - Len(ps)) |-> Number(0)] ELSE ps

\* the dynamic variables at the start of a call
InitDynamic == ZeroVariables

\* ExpandContext::new()
NewContext == ZeroVariables

----------------------------------------------------------------------------
(* The inputs the caller draws from *)

MaxCalls == 2

MaxPieces == 3

\* every concatenation of at most n of the byte strings
RECURSIVE ConcatBytes(_, _)
ConcatBytes(pieces, n) ==
    IF n = 0 THEN {<< >>}
    ELSE LET shorter == ConcatBytes(pieces, n - 1)
         IN  shorter \cup {s \o p : s \in shorter, p \in pieces}

\* every concatenation of at most n of the pieces
Concats(pieces, n) == ConcatBytes({Bytes(p) : p \in pieces}, n)

Two == String(Bytes(<<"T", "w", "o">>))

\* stores to and loads from static and dynamic variables
VarPieces ==
    { <<"%", "p", "1">>, <<"%", "P", "A">>, <<"%", "P", "Z">>, <<"%", "P", "a">>,
      <<"%", "g", "A">>, <<"%", "g", "a">> }

VarCaps == Concats(VarPieces, MaxPieces)

VarParams == { <<Number(1)>>, <<Two>> }

\* %i among pushes and conversions; tests::increment
IncrPieces ==
    { <<"%", "i">>, <<"%", "p", "1">>, <<"%", "p", "2">>, <<"%", "p", "3">>, <<"%", "d">> }

IncrementCap ==
    Bytes(<<"%", "i", "%", "p", "1", "%", "d", "_", "%", "p", "2", "%", "d",
          "_", "%", "p", "3", "%", "d", "_", "%", "i", "%", "p", "1", "%",
          "d", "_", "%", "p", "2", "%", "d", "_", "%", "p", "3", "%", "d">>)

IncrCaps == Concats(IncrPieces, MaxPieces) \cup {IncrementCap}

IncrParams == { <<Number(10), Number(15), Number(20)>>, <<Number(-1)>>, <<Two, Number(3)>> }

\* conditionals %?%p<t>%t+<then>%e-<else>%; where <then> and <else> are empty or a
\* conditional of the same shape; a tree is <<t, then, else>>, << >> the empty branch
MaxConds == 3

\* the conditionals made of exactly n %? ... %;
RECURSIVE CondTrees(_)
CondTrees(n) ==
    LET Branches(k) == IF k = 0 THEN {<< >>} ELSE CondTrees(k)
    IN  UNION { { <<t, a, b>> : t \in 1..2, a \in Branches(i), b \in Branches(n - 1 - i) }
                : i \in 0..(n - 1) }

AllCondTrees == UNION { CondTrees(n) : n \in 1..MaxConds }

RECURSIVE RenderCond(_)
RenderCond(tree) ==
    LET Branch(b) == IF b = << >> THEN << >> ELSE RenderCond(b)
    IN  Bytes(<<"%", "?", "%", "p">>) \o <<Ord("0") + tree[1]>>
        \o Bytes(<<"%", "t", "+">>) \o Branch(tree[2])
        \o Bytes(<<"%", "e", "-">>) \o Branch(tree[3])
        \o Bytes(<<"%", ";">>)

\* tests::conditional_if_then_else_nested
NestedTree == <<1, <<2, << >>, << >> >>, <<2, << >>, << >> >> >>

NestedCap ==
    Bytes(<<"%", "?", "%", "p", "1", "%", "t", "+", "%", "?", "%", "p", "2",
          "%", "t", "+", "%", "e", "-", "%", ";", "%", "e", "-", "%", "?",
          "%", "p", "2", "%", "t", "+", "%", "e", "-", "%", ";", "%", ";">>)

CondCaps == { RenderCond(tree) : tree \in AllCondTrees }

CondParams ==
    { <<Number(a), Number(b)>> : a, b \in {0, 1} } \cup { <<Number(-5), Number(7)>> }

\* %p followed by an index byte, the digits 1..9 and their neighbours among them
IndexBytes == {Ord("0"), Ord("1"), Ord("4"), Ord("9"), Ord(":"), 200}

ParamPieces == { Bytes(<<"%", "p">>) \o <<b>> : b \in IndexBytes } \cup { Bytes(<<"%", "d">>) }

ParamCaps == ConcatBytes(ParamPieces, MaxPieces)

TenParams == [i \in 1..10 |-> Number(10 + i)]

ParamParams == { << >>, <<Number(7), Two, Number(9)>>, TenParams }

\* raw bytes: NUL, a byte above 0x7f, and the bytes the Nothing and Delay states
\* look for
MaxCapLen == 4

RawBytes == {0, 200, Ord("%"), Ord("$"), Ord(">")}

\* tests::delay_ignored
DelayCap ==
    Bytes(<<"%", "p", "1", "%", "d", "$", "<", "5", "*", "/", ">", "%", "p",
          "1", "%", "d">>)

\* tests::percent_escape
PercentCap == Bytes(<<"%", "p", "1", "%", "%", "%", "%", "%", "d">>)

ByteCaps == ConcatBytes({ <<b>> : b \in RawBytes }, MaxCapLen) \cup {DelayCap, PercentCap}

ByteParams == { <<Number(42)>> }

\* %c on numbers around the multiples of 256, on a string and on an empty stack
CharPieces == { <<"%", "p", "1">>, <<"%", "p", "2">>, <<"%", "p", "3">>, <<"%", "c">> }

\* tests::char_output
CharCap == Bytes(<<"%", "p", "1", "%", "c", "%", "p", "2", "%", "c", "%", "p", "3", "%", "c">>)

CharCaps == Concats(CharPieces, MaxPieces) \cup {CharCap}

CharParams ==
    { <<Number(42), Number(0), Number(257)>>,
      <<Number(256), Number(-1), Two>>,
      <<Number(-256), Number(MinI32), Number(MaxI32)>> }

\* pushes and conversions; tests::multiple_parameters
LifoPieces ==
    { <<"%", "p", "1">>, <<"%", "p", "2">>, <<"%", "p", "5">>, <<"%", "d">>, <<"%", "s">> }

MultipleCap ==
    Bytes(<<"%", "p", "1", "%", "p", "2", "%", "p", "3", "%", "p", "4", "%",
          "p", "5", "%", "p", "6", "%", "p", "7", "%", "p", "8", "%", "p",
          "9", "%", "d", "%", "d", "%", "d", "%", "d", "%", "d", "%", "s",
          "%", "s", "%", "s", "%", "d">>)

NineParams ==
    <<Number(1), Two, String(Bytes(<<"T", "h", "r", "e", "e">>)),
      String(Bytes(<<"F", "o", "u", "r">>)), Number(5), Number(6), Number(7), Number(8),
      Number(9)>>

LifoCaps == Concats(LifoPieces, MaxPieces) \cup {MultipleCap}

LifoParams == { NineParams, <<Number(3), Number(4)>> }

\* binary arithmetic on the two parameters, and %i before a parameter is printed
ArithOps == {"+", "-", "*", "/", "m"}

ArithCaps ==
    { Bytes(<<"%", "p", "1", "%", "p", "2", "%", op, "%", "d">>) : op \in ArithOps }
    \cup { Bytes(<<"%", "i", "%", "p", k, "%", "d">>) : k \in {"1", "2"} }

\* operands at and around the limits of i32
ArithValues == {0, 1, -1, 2, -7, 65536, MaxI32, MinI32}

ArithParams == { <<Number(x), Number(y)>> : x, y \in ArithValues }

\* integer constants: short texts over two digits around the last digit of
\* i32::MAX, zero, a minus sign and a letter, and the same after 214748364
MaxDigits == 3

ConstChars == {"0", "7", "8", "-", "b"}

ConstTexts ==
    ConcatBytes({<<Ord(ch)>> : ch \in ConstChars}, MaxDigits)
    \cup { Bytes(<<"2", "1", "4", "7", "4", "8", "3", "6", "4">>) \o t :
             t \in ConcatBytes({<<Ord(ch)>> : ch \in ConstChars}, MaxDigits - 1) }

ConstCaps == { Bytes(<<"%", "{">>) \o t \o Bytes(<<"}", "%", "d">>) : t \in ConstTexts }

ConstParams == { << >> }

\* format patterns: a width or a precision of at most MaxDigits digits, or of
\* 6553 and fewer digits than that, with and without a value on the stack
FormatChars == {"0", "5", "6", "9"}

FormatTexts ==
    ConcatBytes({<<Ord(ch)>> : ch \in FormatChars}, MaxDigits - 1)
    \cup { Bytes(<<"6", "5", "5", "3">>) \o t :
             t \in ConcatBytes({<<Ord(ch)>> : ch \in FormatChars}, MaxDigits - 1) \ {<< >>} }

FormatCaps ==
    { pre \o Bytes(<<"%">>) \o dot \o t \o Bytes(<<"d">>) :
        pre \in {<< >>, Bytes(<<"%", "p", "1">>)},
        dot \in {<< >>, Bytes(<<".">>)},
        t \in FormatTexts }

FormatParams == { <<Number(42)>> }

\* format patterns opened by ':' as in tests::format_flags: any of the flags
\* - + space #, a width or none, a precision or none (or a bare '.'), each of the
\* conversions, on tests' numbers and string
FlagBytes == <<"-", "+", " ", "#">>

FlagParts ==
    [flags : SUBSET (1..Len(FlagBytes)),
     width : {None, Some(3), Some(10)},
     dot : BOOLEAN,
     precision : {None, Some(2), Some(5)},
     op : {"d", "o", "x", "X", "s"}]

\* %p1%: flags width [. precision] op
FlagCap(parts) ==
    LET flag(i) == IF i \in parts.flags THEN Bytes(<<FlagBytes[i]>>) ELSE << >>
    IN
    Bytes(<<"%", "p", "1", "%", ":">>)
    \o flag(1) \o flag(2) \o flag(3) \o flag(4)
    \o (IF parts.width.some THEN DecDigits(parts.width.v) ELSE << >>)
    \o (IF parts.dot THEN Bytes(<<".">>) ELSE << >>)
    \o (IF parts.precision.some THEN DecDigits(parts.precision.v) ELSE << >>)
    \o Bytes(<<parts.op>>)

\* the capabilities with the parts they are made of
FlagTable == { <<FlagCap(parts), parts>> : parts \in {q \in FlagParts : q.precision.some => q.dot} }

FlagCaps == { e[1] : e \in FlagTable }

FlagParams ==
    { <<Number(n)>> : n \in {0, 42, -42, 63} } \cup { <<String(Bytes(<<"O", "n", "e">>))>> }

\* regions skipped by a conditional: %p1%t region %; skips the region when p1 is
\* 0, %p1%tA%e region %; skips it when p1 is not; the region holds directives
\* that fail when they are executed, nested conditionals and plain bytes
SkipPieces ==
    { <<"%", "Y">>, <<"%", "P", "A">>, <<"%", "/">>, <<"%", "?">>, <<"%", ";">>,
      <<"%", "e">>, <<"%", "%">>, <<"x">> }

SkipRegions == Concats(SkipPieces, MaxPieces)

SkipCaps ==
    { Bytes(<<"%", "p", "1", "%", "t">>) \o region \o Bytes(<<"%", ";">>) :
        region \in SkipRegions }
    \cup { Bytes(<<"%", "p", "1", "%", "t", "A", "%", "e">>) \o region \o Bytes(<<"%", ";">>) :
             region \in SkipRegions }

SkipParams == { <<Number(0)>>, <<Number(7)>> }

\* each binary operator on no value, on one value and on two values, the values
\* numbers and strings
BinaryOps == {"+", "-", "*", "/", "m", "&", "|", "^", "=", "<", ">", "A", "O"}

BinaryCaps ==
    { pushes \o Bytes(<<"%", op, "%", "d">>) :
        pushes \in {<< >>, Bytes(<<"%", "p", "1">>), Bytes(<<"%", "p", "1", "%", "p", "2">>)},
        op \in BinaryOps }

BinaryValues == {Number(n) : n \in {0, 1, 2, 5, -7}} \cup {Two}

BinaryParams == { <<x, y>> : x, y \in BinaryValues }

\* the conditional and the logical operators on numbers of either sign
ThenCap == Bytes(<<"%", "p", "1", "%", "t", "T", "%", "e", "F", "%", ";">>)

NotCap == Bytes(<<"%", "p", "1", "%", "!", "%", "d">>)

LogicalCap(op) == Bytes(<<"%", "p", "1", "%", "p", "2", "%", op, "%", "d">>)

TruthCaps == {ThenCap, NotCap, LogicalCap("A"), LogicalCap("O")}

TruthValues == {0, 1, -1, 5, -7, MaxI32, MinI32}

TruthParams == { <<Number(x), Number(y)>> : x, y \in TruthValues }

\* %p1%p2% followed by operators, flags, digits and other bytes, then d
PatternBytes == {"+", "-", ":", "#", " ", ".", "5", "^"}

PatternCaps ==
    { Bytes(<<"%", "p", "1", "%", "p", "2", "%">>) \o t \o Bytes(<<"d">>) :
        t \in ConcatBytes({Bytes(<<ch>>) : ch \in PatternBytes}, MaxPieces) }

PatternParams == { <<Number(5), Number(3)>> }

\* %P and %g with the names at the ends of A-Z and a-z and with bytes next to
\* them, on an empty stack and after a push; tests::stack_underflow_variable,
\* tests::variable_bad_name
NameBytes == {"A", "Z", "a", "z", "1", "@", "[", "{", " "}

NameCaps ==
    { pushes \o Bytes(<<"%", op, name>>) :
        pushes \in {<< >>, Bytes(<<"%", "p", "1">>)}, op \in {"P", "g"}, name \in NameBytes }

NameParams == { <<Number(1)>>, <<Two>> }

\* one directive after another, whole or cut at any byte: every state of the
\* machine is entered, left, and met at the end of the capability
Directives ==
    { Bytes(t) : t \in
        { <<"%", "%">>, <<"%", "p", "1">>, <<"%", "P", "A">>, <<"%", "g", "a">>,
          <<"%", "'", "x", "'">>, <<"%", "{", "1", "0", "}">>,
          <<"%", ":", "-", "5", ".", "2", "d">>, <<"$", "<", "5", ">">>,
          <<"%", "p", "1", "%", "t">>, <<"%", "e">>, <<"%", ";">>, <<"%", "d">>, <<"x">> } }

PartialCaps ==
    UNION { { SubSeq(first \o second, 1, n) : n \in 0..Len(first \o second) } :
            first \in Directives, second \in Directives }

PartialParams == { <<Number(0)>>, <<Number(7)>> }

\* calls that store p1 in the static variable A and then fail, and calls that
\* read A and the dynamic variable a
StoreTails ==
    { Bytes(t) : t \in { <<"%", "Y">>, <<"%", "P", "B">>, <<"%", "d">>,
                         <<"%", "p", "1", "%", "P", "a", "%", "/">> } }

StoreCaps == { Bytes(<<"X", "%", "p", "1", "%", "P", "A">>) \o tail : tail \in StoreTails }

ReadStatic == Bytes(<<"%", "g", "A", "%", "d">>)

ReadDynamic == Bytes(<<"%", "g", "a", "%", "d">>)

FailCaps == StoreCaps \cup {ReadStatic, ReadDynamic}

FailParams == { <<Number(n)>> : n \in {5, 9, -3} }

\* %d with a precision up to the largest the pattern accepts, under the + flag
\* and without it, on a positive and on a negative number
SignedPrecisions == {5, 65534, MaxU16}

SignedCap(plus, precision) ==
    Bytes(<<"%", "p", "1", "%", ":">>)
    \o (IF plus THEN Bytes(<<"+">>) ELSE << >>)
    \o Bytes(<<".">>) \o DecDigits(precision) \o Bytes(<<"d">>)

SignedCaps == { SignedCap(plus, precision) : plus \in BOOLEAN, precision \in SignedPrecisions }

SignedParams == { <<Number(42)>>, <<Number(-42)>> }

CapsOf(w) ==
    CASE w = "signed" -> SignedCaps
      [] w = "fail" -> FailCaps
      [] w = "partial" -> PartialCaps
      [] w = "names" -> NameCaps
      [] w = "pattern" -> PatternCaps
      [] w = "truth" -> TruthCaps
      [] w = "binary" -> BinaryCaps
      [] w = "skip" -> SkipCaps
      [] w = "flags" -> FlagCaps
      [] w = "format" -> FormatCaps
      [] w = "const" -> ConstCaps
      [] w = "arith" -> ArithCaps
      [] w = "lifo" -> LifoCaps
      [] w = "char" -> CharCaps
      [] w = "bytes" -> ByteCaps
      [] w = "param" -> ParamCaps
      [] w = "cond" -> CondCaps
      [] w = "incr" -> IncrCaps
      [] w = "vars" -> VarCaps

ParamsOf(w) ==
    CASE w = "signed" -> SignedParams
      [] w = "fail" -> FailParams
      [] w = "partial" -> PartialParams
      [] w = "names" -> NameParams
      [] w = "pattern" -> PatternParams
      [] w = "truth" -> TruthParams
      [] w = "binary" -> BinaryParams
      [] w = "skip" -> SkipParams
      [] w = "flags" -> FlagParams
      [] w = "format" -> FormatParams
      [] w = "const" -> ConstParams
      [] w = "arith" -> ArithParams
      [] w = "lifo" -> LifoParams
      [] w = "char" -> CharParams
      [] w = "bytes" -> ByteParams
      [] w = "param" -> ParamParams
      [] w = "cond" -> CondParams
      [] w = "incr" -> IncrParams
      [] w = "vars" -> VarParams

----------------------------------------------------------------------------
(* The terminfo parser *)

ABSENT_ENTRY == -1

CANCELED_ENTRY == -2

BOOL_NAMES ==
    <<"bw", "am", "xsb", "xhp", "xenl", "eo", "gn", "hc", "km", "hs", "in", "db", "da", "mir",
      "msgr", "os", "eslok", "xt", "hz", "ul", "xon", "nxon", "mc5i", "chts", "nrrmc", "npc",
      "ndscr", "ccc", "bce", "hls", "xhpa", "crxm", "daisy", "xvpa", "sam", "cpix", "lpix",
      "OTbs", "OTns", "OTnc", "OTMT", "OTNL", "OTpt", "OTxr">>

NUM_NAMES ==
    <<"cols", "it", "lines", "lm", "xmc", "pb", "vt", "wsl", "nlab", "lh", "lw", "ma", "wnum",
      "colors", "pairs", "ncv", "bufsz", "spinv", "spinh", "maddr", "mjump", "mcs", "mls",
      "npins", "orc", "orl", "orhi", "orvi", "cps", "widcs", "btns", "bitwin", "bitype",
      "UTug", "OTdC", "OTdN", "OTdB", "OTdT", "OTkn">>

STR_NAMES ==
    <<"cbt", "bel", "cr", "csr", "tbc", "clear", "el", "ed", "hpa", "cmdch", "cup", "cud1",
      "home", "civis", "cub1", "mrcup", "cnorm", "cuf1", "ll", "cuu1", "cvvis", "dch1", "dl1",
      "dsl", "hd", "smacs", "blink", "bold", "smcup", "smdc", "dim", "smir", "invis", "prot",
      "rev", "smso", "smul", "ech", "rmacs", "sgr0", "rmcup", "rmdc", "rmir", "rmso", "rmul",
      "flash", "ff", "fsl", "is1", "is2", "is3", "if", "ich1", "il1", "ip", "kbs", "ktbc",
      "kclr", "kctab", "kdch1", "kdl1", "kcud1", "krmir", "kel", "ked", "kf0", "kf1", "kf10",
      "kf2", "kf3", "kf4", "kf5", "kf6", "kf7", "kf8", "kf9", "khome", "kich1", "kil1",
      "kcub1", "kll", "knp", "kpp", "kcuf1", "kind", "kri", "khts", "kcuu1", "rmkx", "smkx",
      "lf0", "lf1", "lf10", "lf2", "lf3", "lf4", "lf5", "lf6", "lf7", "lf8", "lf9", "rmm",
      "smm", "nel", "pad", "dch", "dl", "cud", "ich", "indn", "il", "cub", "cuf", "rin", "cuu",
      "pfkey", "pfloc", "pfx", "mc0", "mc4", "mc5", "rep", "rs1", "rs2", "rs3", "rf", "rc",
      "vpa", "sc", "ind", "ri", "sgr", "hts", "wind", "ht", "tsl", "uc", "hu", "iprog", "ka1",
      "ka3", "kb2", "kc1", "kc3", "mc5p", "rmp", "acsc", "pln", "kcbt", "smxon", "rmxon",
      "smam", "rmam", "xonc", "xoffc", "enacs", "smln", "rmln", "kbeg", "kcan", "kclo", "kcmd",
      "kcpy", "kcrt", "kend", "kent", "kext", "kfnd", "khlp", "kmrk", "kmsg", "kmov", "knxt",
      "kopn", "kopt", "kprv", "kprt", "krdo", "kref", "krfr", "krpl", "krst", "kres", "ksav",
      "kspd", "kund", "kBEG", "kCAN", "kCMD", "kCPY", "kCRT", "kDC", "kDL", "kslt", "kEND",
      "kEOL", "kEXT", "kFND", "kHLP", "kHOM", "kIC", "kLFT", "kMSG", "kMOV", "kNXT", "kOPT",
      "kPRV", "kPRT", "kRDO", "kRPL", "kRIT", "kRES", "kSAV", "kSPD", "kUND", "rfi", "kf11",
      "kf12", "kf13", "kf14", "kf15", "kf16", "kf17", "kf18", "kf19", "kf20", "kf21", "kf22",
      "kf23", "kf24", "kf25", "kf26", "kf27", "kf28", "kf29", "kf30", "kf31", "kf32", "kf33",
      "kf34", "kf35", "kf36", "kf37", "kf38", "kf39", "kf40", "kf41", "kf42", "kf43", "kf44",
      "kf45", "kf46", "kf47", "kf48", "kf49", "kf50", "kf51", "kf52", "kf53", "kf54", "kf55",
      "kf56", "kf57", "kf58", "kf59", "kf60", "kf61", "kf62", "kf63", "el1", "mgc", "smgl",
      "smgr", "fln", "sclk", "dclk", "rmclk", "cwin", "wingo", "hup", "dial", "qdial", "tone",
      "pulse", "hook", "pause", "wait", "u0", "u1", "u2", "u3", "u4", "u5", "u6", "u7", "u8",
      "u9", "op", "oc", "initc", "initp", "scp", "setf", "setb", "cpi", "lpi", "chr", "cvr",
      "defc", "swidm", "sdrfq", "sitm", "slm", "smicm", "snlq", "snrmq", "sshm", "ssubm",
      "ssupm", "sum", "rwidm", "ritm", "rlm", "rmicm", "rshm", "rsubm", "rsupm", "rum", "mhpa",
      "mcud1", "mcub1", "mcuf1", "mvpa", "mcuu1", "porder", "mcud", "mcub", "mcuf", "mcuu",
      "scs", "smgb", "smgbp", "smglp", "smgrp", "smgt", "smgtp", "sbim", "scsd", "rbim",
      "rcsd", "subcs", "supcs", "docr", "zerom", "csnm", "kmous", "minfo", "reqmp", "getm",
      "setaf", "setab", "pfxl", "devt", "csin", "s0ds", "s1ds", "s2ds", "s3ds", "smglr",
      "smgtb", "birep", "binel", "bicr", "colornm", "defbi", "endbi", "setcolor", "slines",
      "dispc", "smpch", "rmpch", "smsc", "rmsc", "pctrm", "scesc", "scesa", "ehhlm", "elhlm",
      "elohlm", "erhlm", "ethlm", "evhlm", "sgr1", "slength", "OTi2", "OTrs", "OTnl", "OTbs",
      "OTko", "OTma", "OTG2", "OTG3", "OTG1", "OTG4", "OTGR", "OTGL", "OTGU", "OTGD", "OTGH",
      "OTGV", "OTGC", "meml", "memu", "box1">>

\* TerminfoMagic
Magic1 == 282

Magic2 == 542

\* Error
ParseErr(kind) == [tag |-> "Err", kind |-> kind]

InvalidBooleanValue(value) == [tag |-> "Err", kind |-> "InvalidBooleanValue", value |-> value]

\* u16::from_le_bytes
U16FromLe(b0, b1) == b0 + 256 * b1

\* i16::from_le_bytes, widened to i32
I16FromLe(b0, b1) == b0 + 256 * (IF b1 >= 128 THEN b1 - 256 ELSE b1)

\* i32::from_le_bytes
I32FromLe(b0, b1, b2, b3) ==
    b0 + 256 * b1 + 65536 * b2 + 16777216 * (IF b3 >= 128 THEN b3 - 256 ELSE b3)

\* a Cursor over buf at position position can supply n more bytes
CanRead(buf, position, n) == position + n <= Len(buf)

\* the n bytes of buf from the 0-based offset start
Slice(buf, start, n) == SubSeq(buf, start + 1, start + n)

\* read_le16 at a position where two bytes can be read
read_le16(buf, position) == U16FromLe(buf[position + 1], buf[position + 2])

\* a read_slice that reports a slice beyond the buffer as a short read
read_slice_short_read(buf, position, size) ==
    IF position + size <= Len(buf) THEN Ok(Slice(buf, position, size)) ELSE ParseErr("IO")

\* read_slice: the slice, or UnsupportedFormat when it does not lie in the buffer
read_slice(buf, position, size) ==
    IF position + size <= Len(buf) THEN Ok(Slice(buf, position, size)) ELSE ParseErr("UnsupportedFormat")

\* the index of the first NUL of s, 0 when it has none
FirstNul(s) ==
    IF \E i \in 1..Len(s) : s[i] = 0
    THEN CHOOSE i \in 1..Len(s) : s[i] = 0 /\ \A j \in 1..(i - 1) : s[j] # 0
    ELSE 0

\* a get_string for which the first offset after the table is outside it
get_string_strict(string_table, offset) ==
    IF offset >= Len(string_table) THEN ParseErr("UnsupportedFormat")
    ELSE LET string_slice == SubSeq(string_table, offset + 1, Len(string_table))
             nul == FirstNul(string_slice)
         IN  IF nul = 0 THEN ParseErr("UnterminatedString")
             ELSE Ok(SubSeq(string_slice, 1, nul - 1))

get_string(string_table, offset) ==
    IF offset > Len(string_table) THEN ParseErr("UnsupportedFormat")
    ELSE LET string_slice == SubSeq(string_table, offset + 1, Len(string_table))
             nul == FirstNul(string_slice)
         IN  IF nul = 0 THEN ParseErr("UnterminatedString")
             ELSE Ok(SubSeq(string_slice, 1, nul - 1))

\* a check_offset that knows the absent entry only
check_offset_absent_only(size) ==
    IF size = 65535 THEN None ELSE Some(size)

\* Convert ABSENT and CANCELED to None
check_offset(size) ==
    LET signed == IF size >= 32768 THEN size - 65536 ELSE size
    IN  IF signed \in {ABSENT_ENTRY, CANCELED_ENTRY} THEN None ELSE Some(size)

\* a cursor that is left where it is
align_cursor_never(position) == position

\* Skip a byte if needed to ensure 2-byte alignment
align_cursor(position) == IF position % 2 = 1 THEN position + 1 ELSE position

\* str::from_utf8 accepts s
RECURSIVE IsUtf8(_)
IsUtf8(s) ==
    LET n == Len(s)
        Cont(i) == i <= n /\ 128 <= s[i] /\ s[i] <= 191
        Rest(k) == IsUtf8(SubSeq(s, k + 1, n))
    IN  IF n = 0 THEN TRUE
        ELSE IF s[1] < 128 THEN Rest(1)
        ELSE IF 194 <= s[1] /\ s[1] <= 223 THEN Cont(2) /\ Rest(2)
        ELSE IF s[1] = 224 THEN Cont(2) /\ s[2] >= 160 /\ Cont(3) /\ Rest(3)
        ELSE IF s[1] = 237 THEN Cont(2) /\ s[2] <= 159 /\ Cont(3) /\ Rest(3)
        ELSE IF 225 <= s[1] /\ s[1] <= 239 THEN Cont(2) /\ Cont(3) /\ Rest(3)
        ELSE IF s[1] = 240 THEN Cont(2) /\ s[2] >= 144 /\ Cont(3) /\ Cont(4) /\ Rest(4)
        ELSE IF s[1] = 244 THEN Cont(2) /\ s[2] <= 143 /\ Cont(3) /\ Cont(4) /\ Rest(4)
        ELSE IF 241 <= s[1] /\ s[1] <= 243 THEN Cont(2) /\ Cont(3) /\ Cont(4) /\ Rest(4)
        ELSE FALSE

\* the &str of a byte string: printable ASCII as itself, any other byte and the
\* backslash escaped, so that different byte strings give different names
RECURSIVE Utf8Str(_)
Utf8Str(s) ==
    IF s = << >> THEN ""
    ELSE (IF 32 <= s[1] /\ s[1] <= 126 /\ s[1] # 92 THEN Chr(s[1])
          ELSE "\\x" \o ToString(s[1]) \o ";") \o Utf8Str(Tail(s))

\* str::from_utf8(name)
from_utf8(name) == IF IsUtf8(name) THEN Ok(Utf8Str(name)) ELSE ParseErr("Utf8")

EmptyMap == [k \in {} |-> 0]

\* an insert that keeps the value a key already has
insert_if_vacant(map, key, value) ==
    [k \in DOMAIN map \cup {key} |-> IF k \in DOMAIN map THEN map[k] ELSE value]

\* BTreeMap::insert
Insert(map, key, value) ==
    [k \in DOMAIN map \cup {key} |-> IF k = key THEN value ELSE map[k]]

\* Terminfo::new
NewTerminfo == [booleans |-> {}, numbers |-> EmptyMap, strings |-> EmptyMap, number_size |-> 0]

\* a read_number that takes a 2-byte field as unsigned
read_number_unsigned(number_size, buf, position) ==
    IF number_size = 4 THEN
        IF ~CanRead(buf, position, 4) THEN ParseErr("IO")
        ELSE LET value == I32FromLe(buf[position + 1], buf[position + 2],
                                    buf[position + 3], buf[position + 4])
             IN  Ok(IF value > 0 THEN Some(value) ELSE None)
    ELSE
        IF ~CanRead(buf, position, 2) THEN ParseErr("IO")
        ELSE LET value == U16FromLe(buf[position + 1], buf[position + 2])
             IN  Ok(IF value > 0 THEN Some(value) ELSE None)

\* a read_number that keeps the value 0
read_number_from_zero(number_size, buf, position) ==
    IF number_size = 4 THEN
        IF ~CanRead(buf, position, 4) THEN ParseErr("IO")
        ELSE LET value == I32FromLe(buf[position + 1], buf[position + 2],
                                    buf[position + 3], buf[position + 4])
             IN  Ok(IF value >= 0 THEN Some(value) ELSE None)
    ELSE
        IF ~CanRead(buf, position, 2) THEN ParseErr("IO")
        ELSE LET value == I16FromLe(buf[position + 1], buf[position + 2])
             IN  Ok(IF value >= 0 THEN Some(value) ELSE None)

\* Terminfo::read_number at a position of buf: the value read, if positive
read_number(number_size, buf, position) ==
    IF number_size = 4 THEN
        IF ~CanRead(buf, position, 4) THEN ParseErr("IO")
        ELSE LET value == I32FromLe(buf[position + 1], buf[position + 2],
                                    buf[position + 3], buf[position + 4])
             IN  Ok(IF value > 0 THEN Some(value) ELSE None)
    ELSE
        IF ~CanRead(buf, position, 2) THEN ParseErr("IO")
        ELSE LET value == I16FromLe(buf[position + 1], buf[position + 2])
             IN  Ok(IF value > 0 THEN Some(value) ELSE None)

\* the bytes read_number consumes
NumberWidth(number_size) == IF number_size = 4 THEN 4 ELSE 2

\* for name in BOOL_NAMES.iter().take(bool_count), from the i-th name on
RECURSIVE BaseBooleans(_, _, _, _, _)
BaseBooleans(buf, position, i, bool_count, booleans) ==
    IF i > bool_count THEN Ok([booleans |-> booleans, position |-> position])
    ELSE IF ~CanRead(buf, position, 1) THEN ParseErr("IO")
    ELSE IF buf[position + 1] = 0
         THEN BaseBooleans(buf, position + 1, i + 1, bool_count, booleans)
    ELSE IF buf[position + 1] = 1
         THEN BaseBooleans(buf, position + 1, i + 1, bool_count, booleans \cup {BOOL_NAMES[i]})
    ELSE InvalidBooleanValue(buf[position + 1])

\* for name in NUM_NAMES.iter().take(num_count), from the i-th name on
RECURSIVE BaseNumbers(_, _, _, _, _)
BaseNumbers(buf, position, i, num_count, t) ==
    IF i > num_count THEN Ok([numbers |-> t.numbers, position |-> position])
    ELSE LET number == read_number(t.number_size, buf, position)
             next == position + NumberWidth(t.number_size)
         IN  IF number.tag = "Err" THEN number
             ELSE IF number.value.some
             THEN BaseNumbers(buf, next, i + 1, num_count,
                              [t EXCEPT !.numbers = Insert(@, NUM_NAMES[i], number.value.v)])
             ELSE BaseNumbers(buf, next, i + 1, num_count, t)

\* the i-th u16 of a table of offsets
OffsetAt(offsets, i) == U16FromLe(offsets[2 * i - 1], offsets[2 * i])

\* for name in STR_NAMES.iter().take(str_count), the names from the i-th to the
\* str_count-th in order: the first half of them, then the rest
RECURSIVE BaseStrings(_, _, _, _, _)
BaseStrings(str_offsets, str_table, i, str_count, strings) ==
    IF i > str_count THEN Ok(strings)
    ELSE IF i = str_count THEN
         LET offset == check_offset(OffsetAt(str_offsets, i))
             value == get_string(str_table, offset.v)
         IN  IF ~offset.some THEN Ok(strings)
             ELSE IF value.tag = "Err" THEN value
             ELSE Ok(Insert(strings, STR_NAMES[i], value.value))
    ELSE LET middle == (i + str_count) \div 2
             first == BaseStrings(str_offsets, str_table, i, middle, strings)
         IN  IF first.tag = "Err" THEN first
             ELSE BaseStrings(str_offsets, str_table, middle + 1, str_count, first.value)

\* parse_base after the booleans: the numbers, the two slices, the strings
BaseTables(buf, t, bools, num_count, str_count, str_size) ==
    LET nums == BaseNumbers(buf, align_cursor(bools.position), 1, num_count,
                            [t EXCEPT !.booleans = bools.booleans])
    IN  IF nums.tag = "Err" THEN nums
        ELSE LET str_offsets == read_slice(buf, nums.value.position, 2 * str_count)
                 table_at == nums.value.position + 2 * str_count
                 str_table == read_slice(buf, table_at, str_size)
             IN  IF str_offsets.tag = "Err" THEN str_offsets
                 ELSE IF str_table.tag = "Err" THEN str_table
                 ELSE LET strings == BaseStrings(str_offsets.value, str_table.value, 1,
                                                 str_count, t.strings)
                      IN  IF strings.tag = "Err" THEN strings
                          ELSE Ok([terminfo |-> [t EXCEPT !.booleans = bools.booleans,
                                                          !.numbers = nums.value.numbers,
                                                          !.strings = strings.value],
                                   position |-> table_at + str_size])

\* a parse_base that checks the counts before the magic number
parse_base_counts_first(t, buf) ==
    IF ~CanRead(buf, 0, 12) THEN ParseErr("IO")
    ELSE LET magic == read_le16(buf, 0)
             name_size == read_le16(buf, 2)
             bool_count == read_le16(buf, 4)
             num_count == read_le16(buf, 6)
             str_count == read_le16(buf, 8)
             str_size == read_le16(buf, 10)
         IN  IF \/ bool_count > Len(BOOL_NAMES)
                \/ num_count > Len(NUM_NAMES)
                \/ str_count > Len(STR_NAMES)
             THEN ParseErr("UnsupportedFormat")
             ELSE IF magic \notin {Magic1, Magic2} THEN ParseErr("BadMagic")
             ELSE LET sized == [t EXCEPT !.number_size = IF magic = Magic1 THEN 2 ELSE 4]
                      bools == BaseBooleans(buf, 12 + name_size, 1, bool_count, t.booleans)
                  IN  IF bools.tag = "Err" THEN bools
                      ELSE BaseTables(buf, sized, bools.value, num_count, str_count, str_size)

\* Terminfo::parse_base: the terminfo and the position of the reader after it
parse_base(t, buf) ==
    IF ~CanRead(buf, 0, 12) THEN ParseErr("IO")
    ELSE LET magic == read_le16(buf, 0)
             name_size == read_le16(buf, 2)
             bool_count == read_le16(buf, 4)
             num_count == read_le16(buf, 6)
             str_count == read_le16(buf, 8)
             str_size == read_le16(buf, 10)
         IN  IF magic \notin {Magic1, Magic2} THEN ParseErr("BadMagic")
             ELSE IF \/ bool_count > Len(BOOL_NAMES)
                     \/ num_count > Len(NUM_NAMES)
                     \/ str_count > Len(STR_NAMES)
             THEN ParseErr("UnsupportedFormat")
             ELSE LET sized == [t EXCEPT !.number_size = IF magic = Magic1 THEN 2 ELSE 4]
                      bools == BaseBooleans(buf, 12 + name_size, 1, bool_count, t.booleans)
                  IN  IF bools.tag = "Err" THEN bools
                      ELSE BaseTables(buf, sized, bools.value, num_count, str_count, str_size)

\* the first loop over strs: names_base, from the i-th string offset on
\* names_base without the NUL that ends each value
RECURSIVE NamesBaseNoNul(_, _, _, _)
NamesBaseNoNul(strs, str_table, i, names_base) ==
    IF 2 * i > Len(strs) THEN Ok(names_base)
    ELSE LET offset == check_offset(OffsetAt(strs, i))
             value == get_string(str_table, offset.v)
         IN  IF ~offset.some THEN NamesBaseNoNul(strs, str_table, i + 1, names_base)
             ELSE IF value.tag = "Err" THEN value
             ELSE NamesBaseNoNul(strs, str_table, i + 1, names_base + Len(value.value))

RECURSIVE NamesBase(_, _, _, _)
NamesBase(strs, str_table, i, names_base) ==
    IF 2 * i > Len(strs) THEN Ok(names_base)
    ELSE LET offset == check_offset(OffsetAt(strs, i))
             value == get_string(str_table, offset.v)
         IN  IF ~offset.some THEN NamesBase(strs, str_table, i + 1, names_base)
             ELSE IF value.tag = "Err" THEN value
             ELSE NamesBase(strs, str_table, i + 1, names_base + Len(value.value) + 1)

\* read_le16(&mut names_reader) for the k-th name: None when the table has ended
NameOffset(names, k) == IF 2 * k <= Len(names) THEN Some(OffsetAt(names, k)) ELSE None

\* the name at an offset of the table of names, as the key of a map
NameAt(names_table, name_offset) ==
    LET name == get_string(names_table, name_offset)
    IN  IF name.tag = "Err" THEN name ELSE from_utf8(name.value)

\* the loop over the extended booleans where a 0 leaves the name cursor in place
RECURSIVE ExtBooleansZeroKeepsName(_, _, _, _, _)
ExtBooleansZeroKeepsName(bools, names, names_table, i, booleans) ==
    IF i > Len(bools) THEN Ok(booleans)
    ELSE LET name_offset == NameOffset(names, i - Cardinality({j \in 1..(i - 1) : bools[j] = 0}))
             checked == check_offset(name_offset.v)
             name == NameAt(names_table, checked.v)
         IN  IF bools[i] = 0
             THEN ExtBooleansZeroKeepsName(bools, names, names_table, i + 1, booleans)
             ELSE IF ~name_offset.some THEN ParseErr("UnsupportedFormat")
             ELSE IF bools[i] # 1 THEN InvalidBooleanValue(bools[i])
             ELSE IF ~checked.some THEN ParseErr("UnsupportedFormat")
             ELSE IF name.tag = "Err" THEN name
             ELSE ExtBooleansZeroKeepsName(bools, names, names_table, i + 1,
                                           booleans \cup {name.value})

\* the loop over the extended booleans, from the i-th on
RECURSIVE ExtBooleans(_, _, _, _, _)
ExtBooleans(bools, names, names_table, i, booleans) ==
    IF i > Len(bools) THEN Ok(booleans)
    ELSE LET name_offset == NameOffset(names, i)
             checked == check_offset(name_offset.v)
             name == NameAt(names_table, checked.v)
         IN  IF ~name_offset.some THEN ParseErr("UnsupportedFormat")
             ELSE IF bools[i] = 0 THEN ExtBooleans(bools, names, names_table, i + 1, booleans)
             ELSE IF bools[i] # 1 THEN InvalidBooleanValue(bools[i])
             ELSE IF ~checked.some THEN ParseErr("UnsupportedFormat")
             ELSE IF name.tag = "Err" THEN name
             ELSE ExtBooleans(bools, names, names_table, i + 1, booleans \cup {name.value})

\* the loop over the extended numbers where a number without a value removes the
\* entry of its name
RECURSIVE ExtNumbersRemoving(_, _, _, _, _, _, _)
ExtNumbersRemoving(nums, number_size, names, names_table, first, i, numbers) ==
    LET value == read_number(number_size, nums, (i - 1) * NumberWidth(number_size))
        name_offset == NameOffset(names, first + i)
        checked == check_offset(name_offset.v)
        name == NameAt(names_table, checked.v)
    IN  IF value.tag = "Err" THEN Ok(numbers)
        ELSE IF ~name_offset.some THEN ParseErr("UnsupportedFormat")
        ELSE IF ~checked.some THEN ParseErr("UnsupportedFormat")
        ELSE IF name.tag = "Err" THEN name
        ELSE IF ~value.value.some
        THEN ExtNumbersRemoving(nums, number_size, names, names_table, first, i + 1,
                                [k \in DOMAIN numbers \ {name.value} |-> numbers[k]])
        ELSE ExtNumbersRemoving(nums, number_size, names, names_table, first, i + 1,
                                Insert(numbers, name.value, value.value.v))

\* the loop over the extended numbers, from the i-th on; first is the number of
\* names that precede those of the numbers
RECURSIVE ExtNumbers(_, _, _, _, _, _, _)
ExtNumbers(nums, number_size, names, names_table, first, i, numbers) ==
    LET value == read_number(number_size, nums, (i - 1) * NumberWidth(number_size))
        name_offset == NameOffset(names, first + i)
        checked == check_offset(name_offset.v)
        name == NameAt(names_table, checked.v)
    IN  IF value.tag = "Err" THEN Ok(numbers)
        ELSE IF ~name_offset.some THEN ParseErr("UnsupportedFormat")
        ELSE IF ~value.value.some
        THEN ExtNumbers(nums, number_size, names, names_table, first, i + 1, numbers)
        ELSE IF ~checked.some THEN ParseErr("UnsupportedFormat")
        ELSE IF name.tag = "Err" THEN name
        ELSE ExtNumbers(nums, number_size, names, names_table, first, i + 1,
                        Insert(numbers, name.value, value.value.v))

\* the loop over the extended strings, from the i-th on
RECURSIVE ExtStrings(_, _, _, _, _, _, _)
ExtStrings(strs, str_table, names, names_table, first, i, strings) ==
    IF 2 * i > Len(strs) THEN Ok(strings)
    ELSE LET str_offset == check_offset(OffsetAt(strs, i))
             name_offset == NameOffset(names, first + i)
             checked == check_offset(name_offset.v)
             value == get_string(str_table, str_offset.v)
             name == NameAt(names_table, checked.v)
         IN  IF ~name_offset.some THEN ParseErr("UnsupportedFormat")
             ELSE IF ~(str_offset.some /\ checked.some)
             THEN ExtStrings(strs, str_table, names, names_table, first, i + 1, strings)
             ELSE IF value.tag = "Err" THEN value
             ELSE IF name.tag = "Err" THEN name
             ELSE ExtStrings(strs, str_table, names, names_table, first, i + 1,
                             Insert(strings, name.value, value.value))

\* parse_extended after names_base: the three loops
ExtEntries(t, bools, nums, strs, names, str_table, names_base) ==
    IF names_base > Len(str_table) THEN ParseErr("UnsupportedFormat")
    ELSE LET names_table == SubSeq(str_table, names_base + 1, Len(str_table))
             booleans == ExtBooleans(bools, names, names_table, 1, t.booleans)
             numbers == ExtNumbers(nums, t.number_size, names, names_table,
                                   Len(bools), 1, t.numbers)
             strings == ExtStrings(strs, str_table, names, names_table,
                                   Len(bools) + Len(nums) \div NumberWidth(t.number_size),
                                   1, t.strings)
         IN  IF booleans.tag = "Err" THEN booleans
             ELSE IF numbers.tag = "Err" THEN numbers
             ELSE IF strings.tag = "Err" THEN strings
             ELSE Ok([t EXCEPT !.booleans = booleans.value,
                               !.numbers = numbers.value,
                               !.strings = strings.value])

\* parse_extended after its header: the five slices
ExtTables(t, buf, position, bool_count, num_count, str_count, str_limit) ==
    LET nums_at == align_cursor(position + bool_count)
        strs_at == nums_at + t.number_size * num_count
        names_at == strs_at + 2 * str_count
        table_at == names_at + 2 * (bool_count + num_count + str_count)
        bools == read_slice(buf, position, bool_count)
        nums == read_slice(buf, nums_at, t.number_size * num_count)
        strs == read_slice(buf, strs_at, 2 * str_count)
        names == read_slice(buf, names_at, 2 * (bool_count + num_count + str_count))
        str_table == read_slice(buf, table_at, str_limit)
    IN  IF bools.tag = "Err" THEN bools
        ELSE IF nums.tag = "Err" THEN nums
        ELSE IF strs.tag = "Err" THEN strs
        ELSE IF names.tag = "Err" THEN names
        ELSE IF str_table.tag = "Err" THEN str_table
        ELSE LET names_base == NamesBase(strs.value, str_table.value, 1, 0)
             IN  IF names_base.tag = "Err" THEN names_base
                 ELSE ExtEntries(t, bools.value, nums.value, strs.value, names.value,
                                 str_table.value, names_base.value)

\* Terminfo::parse_extended, the reader being at a position of buf
parse_extended(t, buf, position) ==
    LET header == align_cursor(position)
    IN  IF ~CanRead(buf, header, 10) THEN ParseErr("IO")
        ELSE ExtTables(t, buf, header + 10, read_le16(buf, header), read_le16(buf, header + 2),
                       read_le16(buf, header + 4), read_le16(buf, header + 8))

\* a parse that takes every error of parse_extended for missing extended data
ParseResultLenient(t, extended) ==
    IF extended.tag = "Ok"
    THEN Ok([booleans |-> extended.value.booleans, numbers |-> extended.value.numbers,
             strings |-> extended.value.strings])
    ELSE Ok([booleans |-> t.booleans, numbers |-> t.numbers, strings |-> t.strings])

\* what parse returns for the outcome of parse_extended on the terminfo t
ParseResult(t, extended) ==
    IF extended.tag = "Ok"
    THEN Ok([booleans |-> extended.value.booleans, numbers |-> extended.value.numbers,
             strings |-> extended.value.strings])
    ELSE IF extended.kind = "IO"
    THEN Ok([booleans |-> t.booleans, numbers |-> t.numbers, strings |-> t.strings])
    ELSE extended

----------------------------------------------------------------------------
(* Buffers: the encoder of the parser's tests *)

LE16(n) == <<n % 256, (n \div 256) % 256>>

LE32(n) == <<n % 256, (n \div 256) % 256, (n \div 65536) % 256, (n \div 16777216) % 256>>

\* StringValue
Present(value) == [kind |-> "Present", value |-> value]

Absent == [kind |-> "Absent"]

Canceled == [kind |-> "Canceled"]

\* the concatenation of the byte strings of a sequence
RECURSIVE Flatten(_)
Flatten(ss) ==
    IF ss = << >> THEN << >>
    ELSE IF Len(ss) = 1 THEN ss[1]
    ELSE LET middle == Len(ss) \div 2
         IN  Flatten(SubSeq(ss, 1, middle)) \o Flatten(SubSeq(ss, middle + 1, Len(ss)))

\* the strings with their terminating NUL, one after the other
Pool(strings) == Flatten([i \in 1..Len(strings) |-> Append(strings[i], 0)])

\* the values that are present, in order
IsPresent(entry) == entry.kind = "Present"

PresentValues(values) ==
    LET present == SelectSeq(values, IsPresent)
    IN  [i \in 1..Len(present) |-> present[i].value]

\* the table of offsets of string values, the first present one at offset
ValueOffsets(values, offset) ==
    Flatten([i \in 1..Len(values) |->
                IF values[i].kind = "Present"
                THEN LE16(offset + Len(Pool(PresentValues(SubSeq(values, 1, i - 1)))))
                ELSE IF values[i].kind = "Absent" THEN LE16(65535)
                ELSE LE16(65534)])

\* the table of offsets of names, the first at offset
RECURSIVE NameOffsets(_, _)
NameOffsets(names, offset) ==
    IF names = << >> THEN << >>
    ELSE LE16(offset) \o NameOffsets(Tail(names), offset + Len(Head(names)) + 1)

EncodeNumbers(number_type, numbers) ==
    Flatten([i \in 1..Len(numbers) |->
                IF number_type = "U16" THEN LE16(numbers[i]) ELSE LE32(numbers[i])])

PadEven(bytes) == IF Len(bytes) % 2 = 1 THEN Append(bytes, 0) ELSE bytes

make_ext_buffer(data_set) ==
    LET booleans == data_set.ext_booleans
        numbers == data_set.ext_numbers
        strings == data_set.ext_strings
        names == [i \in 1..Len(booleans) |-> booleans[i][1]]
                 \o [i \in 1..Len(numbers) |-> numbers[i][1]]
                 \o [i \in 1..Len(strings) |-> strings[i][1]]
        values == [i \in 1..Len(strings) |-> strings[i][2]]
        pool == Pool(PresentValues(values)) \o Pool(names)
    IN  PadEven(LE16(Len(booleans)) \o LE16(Len(numbers)) \o LE16(Len(strings)) \o LE16(0)
                \o LE16(Len(pool)) \o [i \in 1..Len(booleans) |-> booleans[i][2]])
        \o EncodeNumbers(data_set.number_type, [i \in 1..Len(numbers) |-> numbers[i][2]])
        \o ValueOffsets(values, 0)
        \o NameOffsets(names, 0)
        \o pool

make_buffer(data_set, add_ext) ==
    LET pool == Pool(PresentValues(data_set.base_strings))
        base == PadEven(LE16(IF data_set.number_type = "U16" THEN Magic1 ELSE Magic2)
                        \o LE16(Len(data_set.term_name) + 1)
                        \o LE16(Len(data_set.base_booleans))
                        \o LE16(Len(data_set.base_numbers))
                        \o LE16(Len(data_set.base_strings))
                        \o LE16(Len(pool))
                        \o Append(data_set.term_name, 0)
                        \o data_set.base_booleans)
                \o EncodeNumbers(data_set.number_type, data_set.base_numbers)
                \o ValueOffsets(data_set.base_strings, 0)
                \o pool
    IN  IF add_ext THEN PadEven(base) \o make_ext_buffer(data_set) ELSE base

\* every sequence of at most n of the values
RECURSIVE SeqsUpTo(_, _)
SeqsUpTo(values, n) ==
    IF n = 0 THEN {<< >>}
    ELSE LET shorter == SeqsUpTo(values, n - 1)
         IN  shorter \cup {Append(s, v) : s \in shorter, v \in values}

\* numeric fields: the numbers of DataSet::default, 0 and the largest i16 plus one
MaxNumbers == 2

NumberValues == {80, -2, 25, -1, -10, 65541, 0, 32768}

\* DataSet::default() with other numbers
DataSetWith(number_type, base_booleans, base_numbers, ext_numbers) ==
    [number_type |-> number_type,
     term_name |-> Bytes(<<"m", "y", "t", "e", "r", "m">>),
     base_booleans |-> base_booleans,
     base_numbers |-> base_numbers,
     base_strings |-> <<Absent, Present(Bytes(<<"H", "e", "l", "l", "o">>))>>,
     ext_booleans |-> << <<Bytes(<<"C", "u", "r", "l", "y">>), 1>> >>,
     ext_numbers |-> ext_numbers,
     ext_strings |-> << <<Bytes(<<"C", "o", "l", "o", "r", "s">>),
                          Present(Bytes(<<"A", " ", "l", "o", "t">>))>> >>]

\* names of extended numbers: one of the tests, one that a base number has
ExtNumberNames == {Bytes(<<"S", "h", "a", "d", "e", "s">>), Bytes(<<"c", "o", "l", "s">>)}

NumberDataSets ==
    { DataSetWith(number_type, base_booleans, base_numbers, ext_numbers) :
        number_type \in {"U16", "U32"},
        base_booleans \in {<<1>>, <<1, 0>>},
        base_numbers \in SeqsUpTo(NumberValues, MaxNumbers),
        ext_numbers \in {<< >>} \cup { << <<name, v>> >> : name \in ExtNumberNames,
                                                         v \in NumberValues } }

NumberBuffers ==
    { make_buffer(data_set, TRUE) : data_set \in NumberDataSets }
    \cup { make_buffer(data_set, FALSE) : data_set \in { d \in NumberDataSets : d.ext_numbers = << >> } }

\* numeric fields around the limits of the two widths
WidthValues == {1, 32767, 32768, 65541, MaxI32, -1}

Shades == Bytes(<<"S", "h", "a", "d", "e", "s">>)

WidthDataSets ==
    { DataSetWith(number_type, <<1>>, base_numbers, ext_numbers) :
        number_type \in {"U16", "U32"},
        base_numbers \in SeqsUpTo(WidthValues, MaxNumbers),
        ext_numbers \in {<< >>} \cup { << <<Shades, v>> >> : v \in WidthValues } }

WidthBuffers ==
    { make_buffer(data_set, data_set.ext_numbers # << >>) : data_set \in WidthDataSets }

\* a DataSet with every table given
DataSet(number_type, base_booleans, base_numbers, base_strings, ext) ==
    [number_type |-> number_type,
     term_name |-> Bytes(<<"m", "y", "t", "e", "r", "m">>),
     base_booleans |-> base_booleans,
     base_numbers |-> base_numbers,
     base_strings |-> base_strings,
     ext_booleans |-> ext.booleans,
     ext_numbers |-> ext.numbers,
     ext_strings |-> ext.strings]

\* the extended tables of DataSet::default()
DefaultExt ==
    [booleans |-> << <<Bytes(<<"C", "u", "r", "l", "y">>), 1>> >>,
     numbers |-> << <<Shades, 1234>> >>,
     strings |-> << <<Bytes(<<"C", "o", "l", "o", "r", "s">>),
                      Present(Bytes(<<"A", " ", "l", "o", "t">>))>> >>]

\* extended entries under the names of base entries, with and without a value
ShadowingExt ==
    [booleans |-> << <<Bytes(<<"C", "u", "r", "l", "y">>), 0>>, <<Bytes(<<"b", "w">>), 1>> >>,
     numbers |-> << <<Bytes(<<"c", "o", "l", "s">>), 132>>, <<Bytes(<<"i", "t">>), -1>> >>,
     strings |-> << <<Bytes(<<"c", "b", "t">>), Present(Bytes(<<"D", "i", "n", "g">>))>>,
                    <<Bytes(<<"b", "e", "l">>), Absent>>,
                    <<Bytes(<<"c", "r">>), Canceled>> >>]

\* extended tables with no entry
EmptyExt == [booleans |-> << >>, numbers |-> << >>, strings |-> << >>]

TableDataSets ==
    { DataSet(number_type, base_booleans, base_numbers, base_strings, ext) :
        number_type \in {"U16", "U32"},
        base_booleans \in {<<1>>, <<0, 1>>},
        base_numbers \in SeqsUpTo({80, -2}, MaxNumbers),
        base_strings \in {<<Absent, Present(Bytes(<<"H", "e", "l", "l", "o">>))>>,
                          <<Present(Bytes(<<"H", "i">>)), Canceled, Present(<< >>)>>},
        ext \in {DefaultExt, ShadowingExt, EmptyExt} }

TableBuffers == { make_buffer(data_set, add_ext) : data_set \in TableDataSets, add_ext \in BOOLEAN }

\* buffers with an extended block, whole and cut short at every point after the
\* base section
CutDataSets ==
    { DataSet(number_type, <<1>>, <<80>>, <<Present(Bytes(<<"H", "i">>))>>, ext) :
        number_type \in {"U16", "U32"}, ext \in {DefaultExt, ShadowingExt} }

BaseLen(data_set) == Len(make_buffer(data_set, FALSE))

CutsOf(data_set) ==
    { SubSeq(make_buffer(data_set, TRUE), 1, n) :
        n \in BaseLen(data_set)..Len(make_buffer(data_set, TRUE)) }

CutBuffers == UNION { CutsOf(data_set) : data_set \in CutDataSets }

\* a buffer with the bytes from the 0-based offset at replaced
Poke(buf, at, bytes) ==
    [i \in 1..Len(buf) |-> IF at < i /\ i <= at + Len(bytes) THEN bytes[i - at] ELSE buf[i]]

\* a well-formed buffer with the default extended block, and where its parts lie:
\* the header, one boolean and its pad, one number, one string offset, three name
\* offsets, then the pool: the value "A lot" and the names Curly, Shades, Colors
SoundDataSet(number_type) ==
    DataSet(number_type, <<1>>, <<80>>, <<Present(Bytes(<<"H", "i">>))>>, DefaultExt)

Sound(number_type) == make_buffer(SoundDataSet(number_type), TRUE)

ExtAt(number_type) == BaseLen(SoundDataSet(number_type)) + (BaseLen(SoundDataSet(number_type)) % 2)

WidthOf(number_type) == IF number_type = "U16" THEN 2 ELSE 4

BoolAt(number_type) == ExtAt(number_type) + 10

ValueOffsetAt(number_type) == ExtAt(number_type) + 12 + WidthOf(number_type)

NameOffsetAt(number_type, k) == ExtAt(number_type) + 14 + WidthOf(number_type) + 2 * (k - 1)

PoolAt(number_type) == ExtAt(number_type) + 20 + WidthOf(number_type)

\* the length of the pool, of its value and of its names
ValueLen == Len(Pool(<<DefaultExt.strings[1][2].value>>))

NamesLen ==
    Len(Pool(<<DefaultExt.booleans[1][1], DefaultExt.numbers[1][1], DefaultExt.strings[1][1]>>))

PoolLen == ValueLen + NamesLen

\* where the k-th name begins in the table of names
NameStart(k) == <<0, 6, 13>>[k]

\* the faults: a boolean byte, the offset of the value, the offset of a name, the
\* first byte of a name, the last NUL of the pool
BadBooleans == {2, 3, 128, 255}

BadOffsets == {1, 2, 100, 40000}

Sentinels == {65535, 65534}

BadLeadBytes == {255, 192, 128}

WithBoolean(number_type, b) == Poke(Sound(number_type), BoolAt(number_type), <<b>>)

WithValueOffset(number_type, o) == Poke(Sound(number_type), ValueOffsetAt(number_type), LE16(o))

WithNameOffset(number_type, k, o) ==
    Poke(Sound(number_type), NameOffsetAt(number_type, k), LE16(o))

WithLeadByte(number_type, k, b) ==
    Poke(Sound(number_type), PoolAt(number_type) + ValueLen + NameStart(k), <<b>>)

WithoutLastNul(number_type, o) ==
    Poke(WithValueOffset(number_type, o), PoolAt(number_type) + PoolLen - 1, <<Ord("x")>>)

FaultBuffers ==
    UNION { {WithBoolean(number_type, b) : b \in BadBooleans}
            \cup {WithValueOffset(number_type, PoolLen + d) : d \in {0} \cup BadOffsets}
            \cup {WithNameOffset(number_type, k, NamesLen + d) : k \in 1..3, d \in {0} \cup BadOffsets}
            \cup {WithNameOffset(number_type, k, o) : k \in 1..3, o \in Sentinels}
            \cup {WithLeadByte(number_type, k, b) : k \in 1..3, b \in BadLeadBytes}
            \cup {WithoutLastNul(number_type, o) : o \in {0, PoolLen - 1}}
            \cup {Sound(number_type)} : number_type \in {"U16", "U32"} }

\* base sections with two string slots over the pool "Hi", "Hello": the offset of
\* the first slot is anything, the NUL that ends the pool is there or not
PoolDataSet(number_type) ==
    DataSet(number_type, <<1>>, <<80>>,
            <<Present(Bytes(<<"H", "i">>)), Present(Bytes(<<"H", "e", "l", "l", "o">>))>>,
            EmptyExt)

BasePool == Pool(PresentValues(PoolDataSet("U16").base_strings))

\* the 0-based position of the string offsets and of the pool: after the header,
\* the name, the boolean and the number
StrOffsetsAt(number_type) == 12 + Len(PoolDataSet(number_type).term_name) + 2 + WidthOf(number_type)

StrTableAt(number_type) == StrOffsetsAt(number_type) + 2 * Len(PoolDataSet(number_type).base_strings)

SlotOffsets == 0..(Len(BasePool) + 2) \cup {100, 40000} \cup Sentinels

WithSlotOffset(number_type, o) ==
    Poke(make_buffer(PoolDataSet(number_type), FALSE), StrOffsetsAt(number_type), LE16(o))

WithOpenPool(number_type, o) ==
    Poke(WithSlotOffset(number_type, o), StrTableAt(number_type) + Len(BasePool) - 1, <<Ord("!")>>)

PoolBuffers ==
    { WithSlotOffset(number_type, o) : number_type \in {"U16", "U32"}, o \in SlotOffsets }
    \cup { WithOpenPool(number_type, o) : number_type \in {"U16", "U32"}, o \in SlotOffsets }

\* buffers without an extended block whose tables have one entry or as many
\* entries as there are names, with the header as encoded or with a wrong magic
\* number, with counts raised by one, whole or cut inside the header
FullBooleans == [i \in 1..Len(BOOL_NAMES) |-> 1]

FullNumbers == [i \in 1..Len(NUM_NAMES) |-> 80]

FullStrings ==
    [i \in 1..Len(STR_NAMES) |-> IF i = 2 THEN Present(Bytes(<<"H", "i">>)) ELSE Absent]

HeaderDataSets ==
    { DataSet(number_type, base_booleans, base_numbers, base_strings, EmptyExt) :
        number_type \in {"U16", "U32"},
        base_booleans \in {<<1>>, FullBooleans},
        base_numbers \in {<<80>>, FullNumbers},
        base_strings \in {<<Present(Bytes(<<"H", "i">>))>>, FullStrings} }

HeaderSound == { make_buffer(data_set, FALSE) : data_set \in HeaderDataSets }

\* the magic numbers tried: the one encoded (0), that of tests::bad_magic with
\* buffer[1] = 3, and 0x011A with its bytes swapped
BadMagics == {0, 794, 6657}

\* the k-th 16-bit field of the header raised by one
Raised(buf, k) == Poke(buf, 2 * k, LE16(U16FromLe(buf[2 * k + 1], buf[2 * k + 2]) + 1))

RECURSIVE RaisedAll(_, _)
RaisedAll(buf, fields) ==
    IF fields = {} THEN buf
    ELSE LET k == CHOOSE f \in fields : TRUE
         IN  RaisedAll(Raised(buf, k), fields \ {k})

HeaderCuts == {0, 1, 6, 11}

HeaderBuffers ==
    UNION { LET poked == RaisedAll(IF magic = 0 THEN buf ELSE Poke(buf, 0, LE16(magic)), fields)
            IN  {poked} \cup { SubSeq(poked, 1, n) : n \in HeaderCuts } :
            buf \in HeaderSound, magic \in BadMagics, fields \in SUBSET {2, 3, 4} }

\* buffers with an extended block whose tables end at odd and at even offsets: a
\* terminal name of 5 or 6 bytes, one or two base booleans, a base string pool of
\* 3 or 6 bytes, and 1, 2 or 0 extended booleans
AlignedNames == {Bytes(<<"m", "y", "t", "e", "r", "m">>), Bytes(<<"x", "t", "e", "r", "m">>)}

AlignedDataSets ==
    { [DataSet(number_type, base_booleans, <<80>>, <<Present(value)>>, ext)
         EXCEPT !.term_name = term_name] :
        number_type \in {"U16", "U32"},
        term_name \in AlignedNames,
        base_booleans \in {<<1>>, <<0, 1>>},
        value \in {Bytes(<<"H", "i">>), Bytes(<<"H", "e", "l", "l", "o">>)},
        ext \in {DefaultExt, ShadowingExt, EmptyExt} }

AlignedBuffers == { make_buffer(data_set, TRUE) : data_set \in AlignedDataSets }

\* an extended block of two strings, "Hi" under "ab" and "A long one" under "c",
\* with the two value offsets replaced by every offset inside the pool and by the
\* sentinels
SplitExt ==
    [booleans |-> << >>,
     numbers |-> << >>,
     strings |-> << <<Bytes(<<"a", "b">>), Present(Bytes(<<"H", "i">>))>>,
                    <<Bytes(<<"c">>),
                      Present(Bytes(<<"A", " ", "l", "o", "n", "g", " ", "o", "n", "e">>))>> >>]

SplitDataSet(number_type) ==
    DataSet(number_type, <<1>>, <<80>>, <<Present(Bytes(<<"H", "i">>))>>, SplitExt)

SplitPoolLen ==
    Len(Pool(<<SplitExt.strings[1][2].value, SplitExt.strings[2][2].value,
               SplitExt.strings[1][1], SplitExt.strings[2][1]>>))

SplitOffsets == 0..(SplitPoolLen - 1) \cup Sentinels

\* the value offsets follow the 10-byte header, the block having no boolean and
\* no number
SplitBuffers ==
    { Poke(make_buffer(SplitDataSet(number_type), TRUE),
           Len(PadEven(make_buffer(SplitDataSet(number_type), FALSE))) + 10, LE16(first) \o LE16(second)) :
        number_type \in {"U16", "U32"}, first \in SplitOffsets, second \in SplitOffsets }

\* extended blocks of two booleans, two numbers and two strings, each entry with
\* a value that produces output or with one that does not
SlotNames ==
    <<Bytes(<<"X", "a">>), Bytes(<<"X", "b">>), Bytes(<<"N", "a">>), Bytes(<<"N", "b">>),
      Bytes(<<"S", "a">>), Bytes(<<"S", "b">>)>>

SlotBooleans == {0, 1}

SlotNumbers == {7, 0, -1, -2}

SlotStrings == {Present(Bytes(<<"v">>)), Absent, Canceled}

SlotDataSets ==
    { DataSet(number_type, <<1>>, <<80>>, <<Present(Bytes(<<"H", "i">>))>>,
              [booleans |-> << <<SlotNames[1], b[1]>>, <<SlotNames[2], b[2]>> >>,
               numbers |-> << <<SlotNames[3], n[1]>>, <<SlotNames[4], n[2]>> >>,
               strings |-> << <<SlotNames[5], s[1]>>, <<SlotNames[6], s[2]>> >>]) :
        number_type \in {"U16", "U32"},
        b \in SlotBooleans \X SlotBooleans,
        n \in SlotNumbers \X SlotNumbers,
        s \in SlotStrings \X SlotStrings }

SlotBuffers == { make_buffer(data_set, TRUE) : data_set \in SlotDataSets }

\* extended blocks whose entries have the names of the base entries bw, cols, it,
\* cbt and bel, each with a value that produces output or with one that does not
ShadowBooleans == {0, 1}

ShadowNumbers == {132, 0, -1, -2}

ShadowStrings == {Present(Bytes(<<"D", "i", "n", "g">>)), Absent, Canceled}

ShadowDataSets ==
    { DataSet(number_type, <<1>>, <<80, 8>>,
              <<Present(Bytes(<<"H", "i">>)), Present(Bytes(<<"H", "e", "l", "l", "o">>))>>,
              [booleans |-> << <<Bytes(<<"b", "w">>), b>> >>,
               numbers |-> << <<Bytes(<<"c", "o", "l", "s">>), n[1]>>,
                              <<Bytes(<<"i", "t">>), n[2]>> >>,
               strings |-> << <<Bytes(<<"c", "b", "t">>), s[1]>>,
                              <<Bytes(<<"b", "e", "l">>), s[2]>> >>]) :
        number_type \in {"U16", "U32"},
        b \in ShadowBooleans,
        n \in ShadowNumbers \X ShadowNumbers,
        s \in ShadowStrings \X ShadowStrings }

ShadowBuffers == { make_buffer(data_set, TRUE) : data_set \in ShadowDataSets }

BuffersOf(w) ==
    CASE w = "shadow" -> ShadowBuffers
      [] w = "slots" -> SlotBuffers
      [] w = "split" -> SplitBuffers
      [] w = "aligned" -> AlignedBuffers
      [] w = "headers" -> HeaderBuffers
      [] w = "pools" -> PoolBuffers
      [] w = "faults" -> FaultBuffers
      [] w = "cuts" -> CutBuffers
      [] w = "tables" -> TableBuffers
      [] w = "widths" -> WidthBuffers
      [] w = "numbers" -> NumberBuffers

----------------------------------------------------------------------------
(* locate: the directories searched for terminfo files *)

TERMINFO_DIRS ==
    <<"/etc/terminfo", "/lib/terminfo", "/usr/share/terminfo", "/usr/lib/terminfo",
      "/boot/system/data/terminfo">>

\* the string of a sequence of characters
RECURSIVE StrOf(_)
StrOf(chars) == IF chars = << >> THEN "" ELSE Head(chars) \o StrOf(Tail(chars))

\* dirs.split(':'): the pieces between the colons, one more than there are colons
RECURSIVE split(_)
split(chars) ==
    IF \A i \in 1..Len(chars) : chars[i] # ":" THEN <<chars>>
    ELSE LET colon == CHOOSE i \in 1..Len(chars) :
                          chars[i] = ":" /\ \A j \in 1..(i - 1) : chars[j] # ":"
         IN  <<SubSeq(chars, 1, colon - 1)>> \o split(SubSeq(chars, colon + 1, Len(chars)))

\* home_dir.join(".terminfo"), for a home directory that does not end with a slash
JoinTerminfo(home_dir) == home_dir \o "/.terminfo"

\* an extend that takes the default directories from the constant each time
extend_from_constant(l) == [l EXCEPT !.search_dirs = @ \o TERMINFO_DIRS]

\* search_dirs.extend(&mut default_dirs): what is left of the iterator is appended
\* and the iterator is exhausted
extend(l) == [l EXCEPT !.search_dirs = @ \o l.default_dirs, !.default_dirs = << >>]

\* the body of the loop over the entries of TERMINFO_DIRS
search_entry(l, dir) ==
    IF dir = << >> THEN extend(l)
    ELSE [l EXCEPT !.search_dirs = Append(@, StrOf(dir))]

\* the environment of a call: TERMINFO, the home directory, TERMINFO_DIRS
MaxDirs == 4

DirEntries == {<< >>, <<"/", "a">>, <<"/", "b">>}

\* the entries joined by colons
RECURSIVE Intercalate(_)
Intercalate(entries) ==
    IF Len(entries) = 1 THEN entries[1]
    ELSE entries[1] \o <<":">> \o Intercalate(Tail(entries))

EntryLists == SeqsUpTo(DirEntries, MaxDirs) \ {<< >>}

Environments ==
    [terminfo : {None, Some("/my/terminfo")},
     home : {None, Some("/home/user")},
     terminfo_dirs : {None} \cup {Some(Intercalate(entries)) : entries \in EntryLists}]

\* no call of search_directories is under way
NoSearch ==
    search = [stage |-> "none", env |-> [terminfo |-> None, home |-> None,
                                         terminfo_dirs |-> None],
              default_dirs |-> << >>, entries |-> << >>, search_dirs |-> << >>]

----------------------------------------------------------------------------
(* The expander as a state machine *)

\* the locals of expand and the context, as the per-byte operators take them
Locals ==
    [state |-> state, output |-> output, stack |-> stack,
     dynamic_variables |-> dynamic_variables, static_variables |-> static_variables,
     mparams |-> mparams, incremented |-> incremented, old_state |-> state,
     ret |-> Running]

NoParse ==
    /\ buffer = << >>
    /\ parsed = [stage |-> "none", terminfo |-> NewTerminfo, position |-> 0,
                 result |-> [tag |-> "None"]]

\* no call of expand is under way on a new context
NoExpand ==
    /\ overflow_checks = "unobserved"
    /\ static_variables = NewContext
    /\ pc = "idle"
    /\ cap = << >>
    /\ params = << >>
    /\ pos = 0
    /\ state = Nothing
    /\ output = << >>
    /\ stack = << >>
    /\ dynamic_variables = InitDynamic
    /\ mparams = << >>
    /\ incremented = FALSE
    /\ result = [tag |-> "None"]
    /\ calls = 0

InitExpand(w) ==
    /\ workload = w
    /\ NoExpand
    /\ NoParse
    /\ NoSearch

\* the caller calls expand(cap, params): the code before the loop
Expand ==
    /\ pc = "idle"
    /\ calls < MaxCalls
    /\ \E c \in CapsOf(workload), ps \in ParamsOf(workload) :
        /\ cap' = c
        /\ params' = ps
        /\ mparams' = PadParams(ps)
    /\ pos' = 1
    /\ state' = Nothing
    /\ output' = << >>
    /\ stack' = << >>
    /\ dynamic_variables' = InitDynamic
    /\ incremented' = FALSE
    /\ result' = Running
    /\ calls' = calls + 1
    /\ pc' = "loop"
    /\ UNCHANGED <<workload, overflow_checks, static_variables, parse_vars, locate_vars>>

\* the builds the run so far is consistent with: overflow checks on (TRUE), off
\* (FALSE)
Profiles ==
    IF overflow_checks = "unobserved" THEN BOOLEAN ELSE {overflow_checks = "on"}

\* one byte of the capability is processed; an error returns at once. The build
\* profile shows, and is fixed from then on, when an operation overflows.
ExpandByte ==
    /\ pc = "loop"
    /\ pos <= Len(cap)
    /\ \E checks \in Profiles :
        \E m \in {LoopBody(Locals, cap[pos], checks)},
           other \in {LoopBody(Locals, cap[pos], ~checks)} :
            /\ state' = m.state
            /\ output' = m.output
            /\ stack' = m.stack
            /\ dynamic_variables' = m.dynamic_variables
            /\ static_variables' = m.static_variables
            /\ mparams' = m.mparams
            /\ incremented' = m.incremented
            /\ result' = m.ret
            /\ pc' = CASE m.ret = Running -> "loop"
                       [] m.ret = Panic -> "panicked"
                       [] OTHER -> "returned"
            /\ pos' = IF m.ret = Running THEN pos + 1 ELSE pos
            /\ overflow_checks' = IF other = m THEN overflow_checks
                                  ELSE IF checks THEN "on" ELSE "off"
    /\ UNCHANGED <<workload, cap, params, calls, parse_vars, locate_vars>>

\* an end of the loop that reports an unfinished directive
ExpandReturnStrict ==
    /\ pc = "loop"
    /\ pos > Len(cap)
    /\ result' = IF state = Nothing THEN Ok(output)
                 ELSE Err("UnrecognizedFormatOption", "%")
    /\ pc' = "returned"
    /\ UNCHANGED <<workload, overflow_checks, static_variables, cap, params, pos, state,
                   output, stack, dynamic_variables, mparams, incremented, calls,
                   parse_vars, locate_vars>>

\* the loop is over: Ok(output)
ExpandReturn ==
    /\ pc = "loop"
    /\ pos > Len(cap)
    /\ result' = Ok(output)
    /\ pc' = "returned"
    /\ UNCHANGED <<workload, overflow_checks, static_variables, cap, params, pos, state,
                   output, stack, dynamic_variables, mparams, incremented, calls,
                   parse_vars, locate_vars>>

\* the caller is done with the result; the locals of the call are gone and only
\* the context is left
Release ==
    /\ pc = "returned"
    /\ pc' = "idle"
    /\ cap' = << >>
    /\ params' = << >>
    /\ pos' = 0
    /\ state' = Nothing
    /\ output' = << >>
    /\ stack' = << >>
    /\ dynamic_variables' = InitDynamic
    /\ mparams' = << >>
    /\ incremented' = FALSE
    /\ result' = [tag |-> "None"]
    /\ UNCHANGED <<workload, overflow_checks, static_variables, calls, parse_vars, locate_vars>>

NextExpand == Expand \/ ExpandByte \/ ExpandReturn \/ Release

SpecVars == InitExpand("vars") /\ [][NextExpand]_vars

SpecIncr == InitExpand("incr") /\ [][NextExpand]_vars

SpecCond == InitExpand("cond") /\ [][NextExpand]_vars

SpecParam == InitExpand("param") /\ [][NextExpand]_vars

SpecBytes == InitExpand("bytes") /\ [][NextExpand]_vars

SpecChar == InitExpand("char") /\ [][NextExpand]_vars

SpecLifo == InitExpand("lifo") /\ [][NextExpand]_vars

SpecArith == InitExpand("arith") /\ [][NextExpand]_vars

SpecConst == InitExpand("const") /\ [][NextExpand]_vars

SpecFormat == InitExpand("format") /\ [][NextExpand]_vars

SpecFlags == InitExpand("flags") /\ [][NextExpand]_vars

SpecSkip == InitExpand("skip") /\ [][NextExpand]_vars

SpecBinary == InitExpand("binary") /\ [][NextExpand]_vars

SpecTruth == InitExpand("truth") /\ [][NextExpand]_vars

SpecPattern == InitExpand("pattern") /\ [][NextExpand]_vars

SpecNames == InitExpand("names") /\ [][NextExpand]_vars

SpecPartial == InitExpand("partial") /\ [][NextExpand]_vars

SpecFail == InitExpand("fail") /\ [][NextExpand]_vars

SpecSigned == InitExpand("signed") /\ [][NextExpand]_vars

----------------------------------------------------------------------------
(* search_directories as a state machine *)

\* the caller calls search_directories in some environment: the empty vector and
\* the iterator over TERMINFO_DIRS
InitSearch ==
    /\ workload = "search"
    /\ NoExpand
    /\ NoParse
    /\ \E env \in Environments :
          search = [stage |-> "TERMINFO", env |-> env, default_dirs |-> TERMINFO_DIRS,
                    entries |-> << >>, search_dirs |-> << >>]

\* if let Ok(dir) = env::var("TERMINFO")
SearchTerminfo ==
    /\ search.stage = "TERMINFO"
    /\ search' = [search EXCEPT
                    !.stage = "home",
                    !.search_dirs = IF search.env.terminfo.some
                                    THEN Append(@, search.env.terminfo.v) ELSE @]
    /\ UNCHANGED <<workload, overflow_checks, expand_vars, parse_vars>>

\* if let Some(home_dir) = env::home_dir()
SearchHome ==
    /\ search.stage = "home"
    /\ search' = [search EXCEPT
                    !.stage = "TERMINFO_DIRS",
                    !.search_dirs = IF search.env.home.some
                                    THEN Append(@, JoinTerminfo(search.env.home.v)) ELSE @]
    /\ UNCHANGED <<workload, overflow_checks, expand_vars, parse_vars>>

\* if let Ok(dirs) = env::var("TERMINFO_DIRS"): the split
SearchTerminfoDirs ==
    /\ search.stage = "TERMINFO_DIRS"
    /\ search' = IF search.env.terminfo_dirs.some
                 THEN [search EXCEPT !.stage = "entries",
                                     !.entries = split(search.env.terminfo_dirs.v)]
                 ELSE [search EXCEPT !.stage = "defaults"]
    /\ UNCHANGED <<workload, overflow_checks, expand_vars, parse_vars>>

\* for dir in dirs.split(':'): one entry
SearchEntry ==
    /\ search.stage = "entries"
    /\ search' = [search_entry(search, Head(search.entries)) EXCEPT
                    !.entries = Tail(search.entries),
                    !.stage = IF Tail(search.entries) = << >> THEN "defaults" ELSE "entries"]
    /\ UNCHANGED <<workload, overflow_checks, expand_vars, parse_vars>>

\* the final search_dirs.extend(&mut default_dirs), and the return
SearchDefaults ==
    /\ search.stage = "defaults"
    /\ search' = [extend(search) EXCEPT !.stage = "returned"]
    /\ UNCHANGED <<workload, overflow_checks, expand_vars, parse_vars>>

NextSearch ==
    SearchTerminfo \/ SearchHome \/ SearchTerminfoDirs \/ SearchEntry \/ SearchDefaults

SpecSearch == InitSearch /\ [][NextSearch]_vars

----------------------------------------------------------------------------
(* Properties *)

\* the step about to be taken processes the byte cap[pos]
AtByte == pc = "loop" /\ pos <= Len(cap)

\* the step processes byte cap[pos] in state st and does not return
Executes(st) == AtByte /\ state = st /\ pc' = "loop"

AllZero(variables) == \A k \in 0..25 : variables[k] = Number(0)

\* what one step may do to the variables of the two banks
VariableStep ==
    /\ \A k \in 0..25 :
        /\ static_variables'[k] # static_variables[k] =>
             /\ Executes(SetVar)
             /\ cap[pos] = Ord("A") + k
             /\ static_variables'[k] = Top(stack)
        /\ dynamic_variables'[k] # dynamic_variables[k] =>
             \/ /\ Executes(SetVar)
                /\ cap[pos] = Ord("a") + k
                /\ dynamic_variables'[k] = Top(stack)
             \/ pc = "returned" /\ dynamic_variables'[k] = Number(0)
    /\ (Executes(SetVar) /\ IsUpper(cap[pos])) =>
         static_variables'[cap[pos] - Ord("A")] = Top(stack)
    /\ (Executes(SetVar) /\ IsLower(cap[pos])) =>
         dynamic_variables'[cap[pos] - Ord("a")] = Top(stack)
    /\ (Executes(GetVar) /\ IsUpper(cap[pos])) =>
         stack' = Append(stack, static_variables[cap[pos] - Ord("A")])
    /\ (Executes(GetVar) /\ IsLower(cap[pos])) =>
         stack' = Append(stack, dynamic_variables[cap[pos] - Ord("a")])

\* C1: a value stored with %P[A-Z] is what %g of the same letter pushes in this and
\* every later call on the context until that letter is stored again: a static
\* variable changes only when %P of its own letter stores the popped value, and no
\* call start, return or release touches it. A value stored with %P[a-z] lasts
\* only to the end of its call: at the start of every call all 26 dynamic
\* variables are Number(0). On a fresh context all 26 static variables are
\* Number(0).
C1_VariableLifetimes ==
    /\ [](calls = 0 => AllZero(static_variables))
    /\ []((pc = "loop" /\ pos = 1) => AllZero(dynamic_variables))
    /\ [][VariableStep]_vars

\* the second call, given the number 1, loads with %gA the string an earlier call
\* stored, and reads the dynamic variable a as 0
C1_Witness ==
    /\ calls = 2
    /\ pc = "returned"
    /\ params = <<Number(1)>>
    /\ cap = Bytes(<<"%", "g", "A", "%", "g", "a">>)
    /\ stack = <<Two, Number(0)>>

\* the i-th parameter of the call, 0 beyond the caller's slice
ParamOrZero(ps, i) == IF i <= Len(ps) THEN ps[i] ELSE Number(0)

\* the call's parameters with 1 added to the first two
Incremented(ps) ==
    [i \in 1..9 |-> IF i <= 2 THEN Number(ParamOrZero(ps, i).n + 1) ELSE ParamOrZero(ps, i)]

\* what one step may do to the parameters of the call
IncrementStep ==
    /\ (pc = "idle" /\ pc' = "loop") =>
         /\ ~incremented'
         /\ mparams' = [i \in 1..9 |-> ParamOrZero(params', i)]
    /\ (AtByte /\ state = Percent /\ cap[pos] = Ord("i")
              /\ IsNumber(mparams[1]) /\ IsNumber(mparams[2])) =>
         /\ pc' = "loop"
         /\ incremented'
         /\ mparams' = IF incremented THEN mparams ELSE Incremented(params)
    /\ (pc = "loop" /\ pc' = "loop" /\ mparams' # mparams) =>
         state = Percent /\ cap[pos] = Ord("i") /\ ~incremented

\* C2: the first executed %i of a call adds 1 to parameters 1 and 2, a later %i of
\* the same call changes nothing, so the parameters of a call are the caller's with
\* at most one increment, and each call starts again from the caller's values with
\* the flag clear. tests::increment reads 11_16_20 on both sides of its second %i.
C2_IncrementOncePerCall ==
    /\ [](pc = "loop" =>
            /\ ~incremented => mparams = [i \in 1..9 |-> ParamOrZero(params, i)]
            /\ incremented => mparams = Incremented(params))
    /\ []((pc = "returned" /\ cap = IncrementCap
                /\ params = <<Number(10), Number(15), Number(20)>>) =>
            result = Ok(Bytes(<<"1", "1", "_", "1", "6", "_", "2", "0", "_",
                               "1", "1", "_", "1", "6", "_", "2", "0">>)))
    /\ [][IncrementStep]_vars

\* the second call of tests::increment on one context increments again, once
C2_Witness ==
    /\ calls = 2
    /\ pc = "returned"
    /\ cap = IncrementCap
    /\ params = <<Number(10), Number(15), Number(20)>>
    /\ incremented
    /\ mparams[1] = Number(11)
    /\ mparams[2] = Number(16)
    /\ result.tag = "Ok"

\* what a conditional tree emits: + and the then-branch when its test parameter is
\* not 0, - and the else-branch when it is 0
RECURSIVE CondOutput(_, _)
CondOutput(tree, ps) ==
    LET Branch(b) == IF b = << >> THEN << >> ELSE CondOutput(b, ps)
    IN  IF ps[tree[1]].n # 0 THEN <<Ord("+")>> \o Branch(tree[2])
        ELSE <<Ord("-")>> \o Branch(tree[3])

Sign(p) == IF p.n # 0 THEN Ord("+") ELSE Ord("-")

\* C3: in a well-nested %?C%tT%eE%; whose branches hold complete conditionals,
\* a non-zero test value runs T and skips E up to the %; of the same conditional,
\* a zero test value skips T up to the %e of the same conditional and runs E; one
\* branch contributes output and the cap continues after the matching %;. The
\* nested test cap gives --, -+, +-, ++ for (0,0), (0,1), (1,0), (1,1).
C3_NestedConditionals ==
    pc = "returned" =>
        /\ \A tree \in AllCondTrees :
             cap = RenderCond(tree) => result = Ok(CondOutput(tree, params))
        /\ cap = NestedCap => result = Ok(<<Sign(params[1]), Sign(params[2])>>)

\* the nested test cap with (0, 1): the then-branch and its inner %e are skipped,
\* the else-branch runs and its inner conditional takes its then-branch
C3_Witness ==
    /\ pc = "returned"
    /\ cap = NestedCap
    /\ cap = RenderCond(NestedTree)
    /\ params = <<Number(0), Number(1)>>
    /\ result = Ok(Bytes(<<"-", "+">>))

IsIndexByte(c) == Ord("1") <= c /\ c <= Ord("9")

\* what the byte after %p does, and where InvalidParameterIndex comes from
PushParamStep ==
    /\ (AtByte /\ state = PushParam /\ IsIndexByte(cap[pos])) =>
         /\ pc' = "loop"
         /\ stack' = Append(stack, ParamOrZero(params, cap[pos] - Ord("0")))
    /\ (AtByte /\ state = PushParam /\ ~IsIndexByte(cap[pos])) =>
         /\ pc' = "returned"
         /\ result' = Err("InvalidParameterIndex", Chr(cap[pos]))
    /\ (result' # result /\ result'.tag = "Err" /\ result'.kind = "InvalidParameterIndex") =>
         AtByte /\ state = PushParam /\ ~IsIndexByte(cap[pos])

\* C4: %p1..%p9 never fail whatever the number of parameters of the call: the byte
\* '1'..'9' after %p pushes the parameter at that position, Number(0) when the
\* position is beyond the caller's slice (%p9 with three arguments pushes 0), and
\* InvalidParameterIndex is returned only for an index byte outside '1'..'9' and
\* carries that byte (%p0 gives InvalidParameterIndex('0')).
C4_ParameterPadding ==
    /\ []((pc = "returned" /\ cap = Bytes(<<"%", "p", "9", "%", "d">>) /\ Len(params) = 3) =>
            result = Ok(Bytes(<<"0">>)))
    /\ []((pc = "returned" /\ cap = Bytes(<<"%", "p", "0">>)) =>
            result = Err("InvalidParameterIndex", "0"))
    /\ [][PushParamStep]_vars

\* %p9 has pushed 0 on a call with three arguments, and %d has printed it
C4_Witness ==
    /\ pc = "returned"
    /\ cap = Bytes(<<"%", "p", "9", "%", "d">>)
    /\ params = <<Number(7), Two, Number(9)>>
    /\ result = Ok(Bytes(<<"0">>))

Contains(s, b) == \E i \in 1..Len(s) : s[i] = b

\* what the Nothing state does with a plain byte, and what %% does
PlainByteStep ==
    /\ (AtByte /\ state = Nothing /\ cap[pos] \notin {Ord("%"), Ord("$")}) =>
         /\ pc' = "loop"
         /\ state' = Nothing
         /\ output' = Append(output, cap[pos])
    /\ (AtByte /\ state = Percent /\ cap[pos] = Ord("%")) =>
         /\ pc' = "loop"
         /\ state' = Nothing
         /\ output' = Append(output, Ord("%"))

\* C5: in the Nothing state every byte other than % and $, 0x00 and bytes >= 0x80
\* among them, is appended to the output unchanged and in input order, so a cap
\* with neither % nor $ expands to itself; %% emits exactly one %
\* (%p1%%%%%d with 42 gives %%42).
C5_PlainBytesPassThrough ==
    /\ []((pc = "returned" /\ ~Contains(cap, Ord("%")) /\ ~Contains(cap, Ord("$"))) =>
            result = Ok(cap))
    /\ []((pc = "returned" /\ cap = PercentCap) =>
            result = Ok(Bytes(<<"%", "%", "4", "2">>)))
    /\ [][PlainByteStep]_vars

\* a cap of high bytes and NULs has come out as it went in
C5_Witness ==
    /\ pc = "returned"
    /\ cap = <<200, 0, 0, 200>>
    /\ result = Ok(<<200, 0, 0, 200>>)

\* s without its delays: each $ and what follows it through the next >
RECURSIVE StripDelays(_, _)
StripDelays(s, delay) ==
    IF s = << >> THEN << >>
    ELSE IF delay THEN StripDelays(Tail(s), Head(s) # Ord(">"))
    ELSE IF Head(s) = Ord("$") THEN StripDelays(Tail(s), TRUE)
    ELSE <<Head(s)>> \o StripDelays(Tail(s), FALSE)

\* s has a % that is not inside a delay
RECURSIVE PercentOutsideDelay(_, _)
PercentOutsideDelay(s, delay) ==
    IF s = << >> THEN FALSE
    ELSE IF delay THEN PercentOutsideDelay(Tail(s), Head(s) # Ord(">"))
    ELSE IF Head(s) = Ord("$") THEN PercentOutsideDelay(Tail(s), TRUE)
    ELSE Head(s) = Ord("%") \/ PercentOutsideDelay(Tail(s), FALSE)

\* C6: a delay is a no-op on the output: the $ and every byte after it up to and
\* including the next > are dropped and not interpreted, a % among them starts no
\* directive, and expansion resumes right after the >; a cap whose only % are
\* inside delays expands to itself without its delays, and
\* %p1%d$<5*/>%p1%d with 42 gives 4242.
C6_DelayDropped ==
    pc = "returned" =>
        /\ ~PercentOutsideDelay(cap, FALSE) => result = Ok(StripDelays(cap, FALSE))
        /\ cap = DelayCap => result = Ok(Bytes(<<"4", "2", "4", "2">>))

\* a delay holding a % has been dropped, and the byte after its > emitted
C6_Witness ==
    /\ pc = "returned"
    /\ cap = <<Ord("$"), Ord("%"), Ord(">"), 200>>
    /\ result = Ok(<<200>>)

\* s as a one-character delay would leave it: each $ dropped, and a > right after
\* it dropped too
RECURSIVE StripSingle(_, _)
StripSingle(s, after) ==
    IF s = << >> THEN << >>
    ELSE IF after /\ Head(s) = Ord(">") THEN StripSingle(Tail(s), FALSE)
    ELSE IF after THEN <<Head(s)>> \o StripSingle(Tail(s), FALSE)
    ELSE IF Head(s) = Ord("$") THEN StripSingle(Tail(s), TRUE)
    ELSE <<Head(s)>> \o StripSingle(Tail(s), FALSE)

\* C7 as stated: the delay is one character long: the $ is dropped, a > right after
\* it is dropped too, and any other byte after the $ is emitted literally.
C7_SingleCharacterDelay ==
    (pc = "returned" /\ ~Contains(cap, Ord("%"))) => result = Ok(StripSingle(cap, FALSE))

\* what the Delay state does with a byte, and what $ does in the Nothing state
DelayStep ==
    /\ (AtByte /\ state = Nothing /\ cap[pos] = Ord("$")) =>
         /\ pc' = "loop"
         /\ state' = Delay
         /\ output' = output
    /\ (AtByte /\ state = Delay) =>
         /\ pc' = "loop"
         /\ output' = output
         /\ stack' = stack
         /\ state' = IF cap[pos] = Ord(">") THEN Nothing ELSE Delay

\* C7, amended: the delay started by $ lasts until the next >: the $ is dropped and
\* the expander enters the Delay state, every byte met in that state is dropped,
\* whatever it is, and only > leaves the state; a byte other than > that follows
\* the $ is not emitted and does not end the delay.
C7_DelayLastsUntilGreater == [][DelayStep]_vars

\* the byte right after the $ was dropped with the rest of the delay, and the
\* cap ended inside a second delay that no > closed
C7_Witness ==
    /\ pc = "returned"
    /\ cap = <<Ord("$"), 200, Ord(">"), Ord("$")>>
    /\ state = Delay
    /\ result = Ok(<< >>)

Last(s) == s[Len(s)]

Front(s) == SubSeq(s, 1, Len(s) - 1)

\* what %c does
CharStep ==
    (AtByte /\ state = Percent /\ cap[pos] = Ord("c")) =>
        IF stack = << >> THEN pc' = "returned" /\ result' = Err("StackUnderflow", "c")
        ELSE IF IsString(Last(stack)) THEN pc' = "returned" /\ result' = Err("TypeMismatch", "c")
        ELSE /\ pc' = "loop"
             /\ stack' = Front(stack)
             /\ output' = Append(output, IF Last(stack).n = 0 THEN 128 ELSE Last(stack).n % 256)

\* C8: %c pops a number n and emits exactly one byte, 0x80 when n = 0 and otherwise
\* the low 8 bits of n (42 -> 42, 257 -> 1, a negative n -> n mod 256, a non-zero
\* multiple of 256 -> 0x00); a string on top of the stack gives TypeMismatch('c'),
\* an empty stack StackUnderflow('c'). tests::char_output gives 42, 128, 1.
C8_CharOutput ==
    /\ []((pc = "returned" /\ cap = CharCap /\ params = <<Number(42), Number(0), Number(257)>>) =>
            result = Ok(<<42, 128, 1>>))
    /\ [][CharStep]_vars

\* 256, a non-zero multiple of 256, came out as the byte 0x00
C8_Witness ==
    /\ pc = "returned"
    /\ cap = Bytes(<<"%", "p", "1", "%", "c">>)
    /\ params[1] = Number(256)
    /\ result = Ok(<<0>>)

\* what a push and a conversion do to the stack
LifoStep ==
    /\ (AtByte /\ state = PushParam /\ pc' = "loop") =>
         /\ Len(stack') = Len(stack) + 1
         /\ Front(stack') = stack
         /\ Last(stack') = ParamOrZero(params, cap[pos] - Ord("0"))
    /\ (AtByte /\ state = Percent /\ cap[pos] \in {Ord("d"), Ord("s")} /\ pc' = "loop") =>
         /\ stack # << >>
         /\ stack' = Front(stack)
         /\ Ok(SubSeq(output', Len(output) + 1, Len(output'))) =
                Format(Last(stack), Chr(cap[pos]), DefaultFlags, FALSE)
         /\ SubSeq(output', 1, Len(output)) = output

\* C9: the operand stack is last-in first-out: a push puts its value on top, each
\* conversion consumes exactly one value, the one pushed last among those still on
\* the stack, so after pushing p1..p9 in order the conversions print p9 first and
\* p1 last: tests::multiple_parameters yields 98765FourThreeTwo1.
C9_StackIsLifo ==
    /\ []((pc = "returned" /\ cap = MultipleCap /\ params = NineParams) =>
            result = Ok(Bytes(<<"9", "8", "7", "6", "5", "F", "o", "u", "r",
                                "T", "h", "r", "e", "e", "T", "w", "o", "1">>)))
    /\ [][LifoStep]_vars

\* tests::multiple_parameters has returned with all nine values consumed
C9_Witness ==
    /\ pc = "returned"
    /\ cap = MultipleCap
    /\ params = NineParams
    /\ stack = << >>
    /\ result.tag = "Ok"
    /\ Len(result.value) = 18

----------------------------------------------------------------------------
(* The parser as a state machine *)

\* the caller has a buffer of the workload and calls parse
InitParse(w) ==
    /\ workload = w
    /\ NoExpand
    /\ NoSearch
    /\ buffer \in BuffersOf(w)
    /\ parsed = [stage |-> "start", terminfo |-> NewTerminfo, position |-> 0,
                 result |-> [tag |-> "None"]]

\* terminfo.parse_base(&mut reader)?
ParseBase ==
    /\ parsed.stage = "start"
    /\ \E base \in {parse_base(parsed.terminfo, buffer)} :
        parsed' = IF base.tag = "Err"
                  THEN [parsed EXCEPT !.stage = "done", !.result = base]
                  ELSE [parsed EXCEPT !.stage = "base",
                                      !.terminfo = base.value.terminfo,
                                      !.position = base.value.position]
    /\ UNCHANGED <<workload, overflow_checks, expand_vars, buffer, locate_vars>>

\* match terminfo.parse_extended(&mut reader), and the return of parse
ParseExtended ==
    /\ parsed.stage = "base"
    /\ parsed' = [parsed EXCEPT
                    !.stage = "done",
                    !.result = ParseResult(parsed.terminfo,
                                           parse_extended(parsed.terminfo, buffer,
                                                          parsed.position))]
    /\ UNCHANGED <<workload, overflow_checks, expand_vars, buffer, locate_vars>>

NextParse == ParseBase \/ ParseExtended

SpecNumbers == InitParse("numbers") /\ [][NextParse]_vars

SpecShadow == InitParse("shadow") /\ [][NextParse]_vars

SpecSlots == InitParse("slots") /\ [][NextParse]_vars

SpecSplit == InitParse("split") /\ [][NextParse]_vars

SpecAligned == InitParse("aligned") /\ [][NextParse]_vars

SpecHeaders == InitParse("headers") /\ [][NextParse]_vars

SpecPools == InitParse("pools") /\ [][NextParse]_vars

SpecFaults == InitParse("faults") /\ [][NextParse]_vars

SpecCuts == InitParse("cuts") /\ [][NextParse]_vars

SpecTables == InitParse("tables") /\ [][NextParse]_vars

SpecWidths == InitParse("widths") /\ [][NextParse]_vars

\* the k-th 16-bit field, counted from 0, of a header that starts at offset at
HeaderField(buf, at, k) == buf[at + 2 * k + 1] + 256 * buf[at + 2 * k + 2]

FieldWidth(buf) == IF HeaderField(buf, 0, 0) = Magic1 THEN 2 ELSE 4

Even(n) == n + (n % 2)

\* the i-th numeric field of the table at offset at, as the signed value it encodes
NumericField(buf, at, i) ==
    LET f == at + (i - 1) * FieldWidth(buf)
    IN  IF FieldWidth(buf) = 2 THEN I16FromLe(buf[f + 1], buf[f + 2])
        ELSE I32FromLe(buf[f + 1], buf[f + 2], buf[f + 3], buf[f + 4])

\* the base numeric fields of buf, by slot
BaseFields(buf) ==
    [i \in 1..HeaderField(buf, 0, 3) |->
        NumericField(buf, Even(12 + HeaderField(buf, 0, 1) + HeaderField(buf, 0, 2)), i)]

\* the extended numeric fields of buf, by slot, the base section ending at offset end
ExtFields(buf, end) ==
    IF Even(end) + 10 > Len(buf) THEN << >>
    ELSE [i \in 1..HeaderField(buf, Even(end), 1) |->
            NumericField(buf, Even(Even(end) + 10 + HeaderField(buf, Even(end), 0)), i)]

Positive(fields) == { fields[i] : i \in { j \in DOMAIN fields : fields[j] > 0 } }

\* C10: every value of numbers in a Terminfo that parse returns is strictly
\* positive: a base or extended numeric field that decodes to 0, to -1, to -2 or
\* to another negative value produces no entry. After the base section the names
\* of numbers are those of the slots whose field is positive, and every value of
\* the result is a positive field of the base or of the extended table.
C10_NumbersArePositive ==
    /\ parsed.stage \in {"base", "done"} /\ parsed.result.tag # "Err" =>
         /\ DOMAIN parsed.terminfo.numbers =
                { NUM_NAMES[i] : i \in { j \in DOMAIN BaseFields(buffer) :
                                            BaseFields(buffer)[j] > 0 } }
         /\ \A name \in DOMAIN parsed.terminfo.numbers :
                parsed.terminfo.numbers[name] > 0
    /\ parsed.stage = "done" /\ parsed.result.tag = "Ok" =>
         \A name \in DOMAIN parsed.result.value.numbers :
            /\ parsed.result.value.numbers[name] > 0
            /\ parsed.result.value.numbers[name] \in
                    Positive(BaseFields(buffer)) \cup Positive(ExtFields(buffer, parsed.position))

\* parse has returned for a 16-bit buffer whose base fields are 0, 80 and whose
\* extended field is -2: the only number is it = 80
C10_Witness ==
    /\ parsed.stage = "done"
    /\ parsed.result.tag = "Ok"
    /\ BaseFields(buffer) = <<0, 80>>
    /\ ExtFields(buffer, parsed.position) = <<-2>>
    /\ FieldWidth(buffer) = 2
    /\ DOMAIN parsed.result.value.numbers = {"it"}
    /\ parsed.result.value.numbers["it"] = 80

\* the little-endian two's complement value of the width bytes of buf after offset at
SignedLE(buf, at, width) ==
    IF width = 2
    THEN buf[at + 1] + 256 * buf[at + 2] - (IF buf[at + 2] >= 128 THEN 65536 ELSE 0)
    ELSE buf[at + 1] + 256 * buf[at + 2] + 65536 * buf[at + 3]
         + 16777216 * (buf[at + 4] - (IF buf[at + 4] >= 128 THEN 256 ELSE 0))

\* the width the magic number of buf stands for
MagicWidth(buf) == IF buf[1] = 26 /\ buf[2] = 1 THEN 2 ELSE 4

\* the offset of the base numeric table of buf
BaseNumbersAt(buf) == Even(12 + HeaderField(buf, 0, 1) + HeaderField(buf, 0, 2))

\* the offset of the extended numeric table of buf, its extended header being at ext
ExtNumbersAt(buf, ext) == Even(ext + 10 + HeaderField(buf, ext, 0))

\* a map holds value under name when the value is positive, and nothing otherwise
HoldsIfPositive(map, name, value) ==
    IF value > 0 THEN name \in DOMAIN map /\ map[name] = value ELSE name \notin DOMAIN map

\* a data set whose base number and extended number are both 0x7fffffff
LargestDataSet(number_type) ==
    DataSetWith(number_type, <<1>>, <<MaxI32>>, << <<Shades, MaxI32>> >>)

\* C11: the magic number fixes the width of every numeric field, base and extended:
\* under 0x011A a field is 2 bytes, little-endian, signed 16-bit, widened to i32,
\* under 0x021E it is 4 bytes, little-endian, signed 32-bit; the number under a
\* name is that value when it is positive. So every number of a 0x011A buffer lies
\* in 1..32767, and 0x7fffffff comes back from the buffer that encodes it only
\* under 0x021E.
C11_MagicFixesWidth ==
    /\ parsed.stage \in {"base", "done"} /\ parsed.result.tag # "Err" =>
         \A i \in 1..HeaderField(buffer, 0, 3) :
            HoldsIfPositive(parsed.terminfo.numbers, NUM_NAMES[i],
                            SignedLE(buffer,
                                     BaseNumbersAt(buffer) + (i - 1) * MagicWidth(buffer),
                                     MagicWidth(buffer)))
    /\ parsed.stage = "done" /\ parsed.result.tag = "Ok" =>
         /\ Even(parsed.position) + 10 <= Len(buffer) =>
              HoldsIfPositive(parsed.result.value.numbers, "Shades",
                              SignedLE(buffer, ExtNumbersAt(buffer, Even(parsed.position)),
                                       MagicWidth(buffer)))
         /\ MagicWidth(buffer) = 2 =>
              \A name \in DOMAIN parsed.result.value.numbers :
                 parsed.result.value.numbers[name] \in 1..32767
         /\ buffer = make_buffer(LargestDataSet("U32"), TRUE) =>
              /\ parsed.result.value.numbers["cols"] = MaxI32
              /\ parsed.result.value.numbers["Shades"] = MaxI32
         /\ buffer = make_buffer(LargestDataSet("U16"), TRUE) =>
              DOMAIN parsed.result.value.numbers = {}

\* parse has returned 0x7fffffff for the base and for the extended field of a
\* 0x021E buffer
C11_Witness ==
    /\ parsed.stage = "done"
    /\ parsed.result.tag = "Ok"
    /\ buffer = make_buffer(LargestDataSet("U32"), TRUE)
    /\ MagicWidth(buffer) = 4
    /\ parsed.result.value.numbers["cols"] = MaxI32
    /\ parsed.result.value.numbers["Shades"] = MaxI32

\* the indices of a table whose entry satisfies a condition, as a set
BaseOnes(data_set) == {i \in 1..Len(data_set.base_booleans) : data_set.base_booleans[i] = 1}

ExtOnes(data_set) == {i \in 1..Len(data_set.ext_booleans) : data_set.ext_booleans[i][2] = 1}

BasePositive(data_set) == {i \in 1..Len(data_set.base_numbers) : data_set.base_numbers[i] > 0}

ExtPositive(data_set) == {i \in 1..Len(data_set.ext_numbers) : data_set.ext_numbers[i][2] > 0}

BasePresent(data_set) ==
    {i \in 1..Len(data_set.base_strings) : data_set.base_strings[i].kind = "Present"}

ExtPresent(data_set) ==
    {i \in 1..Len(data_set.ext_strings) : data_set.ext_strings[i][2].kind = "Present"}

\* the text of an ASCII name
NameOf(bytes) == Utf8Str(bytes)

\* what the tables of a data set say: the names of the slots holding 1, the value
\* of every positive slot and the bytes of every present string, an extended
\* entry coming after the base entry of its name
EncodedBooleans(data_set, add_ext) ==
    {BOOL_NAMES[i] : i \in BaseOnes(data_set)}
    \cup (IF add_ext THEN {NameOf(data_set.ext_booleans[i][1]) : i \in ExtOnes(data_set)} ELSE {})

EncodedNumbers(data_set, add_ext) ==
    LET ext == IF add_ext THEN ExtPositive(data_set) ELSE {}
        Named(k) == {i \in ext : NameOf(data_set.ext_numbers[i][1]) = k}
    IN  [k \in {NUM_NAMES[i] : i \in BasePositive(data_set)}
               \cup {NameOf(data_set.ext_numbers[i][1]) : i \in ext} |->
            IF Named(k) # {}
            THEN data_set.ext_numbers[CHOOSE i \in Named(k) : \A j \in Named(k) : j <= i][2]
            ELSE data_set.base_numbers[CHOOSE i \in BasePositive(data_set) : NUM_NAMES[i] = k]]

EncodedStrings(data_set, add_ext) ==
    LET ext == IF add_ext THEN ExtPresent(data_set) ELSE {}
        Named(k) == {i \in ext : NameOf(data_set.ext_strings[i][1]) = k}
    IN  [k \in {STR_NAMES[i] : i \in BasePresent(data_set)}
               \cup {NameOf(data_set.ext_strings[i][1]) : i \in ext} |->
            IF Named(k) # {}
            THEN data_set.ext_strings[CHOOSE i \in Named(k) : \A j \in Named(k) : j <= i][2].value
            ELSE data_set.base_strings[CHOOSE i \in BasePresent(data_set) : STR_NAMES[i] = k].value]

Encoded(data_set, add_ext) ==
    [booleans |-> EncodedBooleans(data_set, add_ext),
     numbers |-> EncodedNumbers(data_set, add_ext),
     strings |-> EncodedStrings(data_set, add_ext)]

\* C12: decoding inverts encoding: for the buffer built from known base tables,
\* with or without a well-formed extended block, parse returns exactly the names
\* of the boolean slots holding 1 (base and extended), the value of every positive
\* numeric slot and the bytes of every string slot whose offset is not a
\* sentinel, and no other entry.
C12_DecodingInvertsEncoding ==
    parsed.stage = "done" =>
        \A data_set \in TableDataSets, add_ext \in BOOLEAN :
            buffer = make_buffer(data_set, add_ext) =>
                parsed.result = Ok(Encoded(data_set, add_ext))

\* parse has returned the entries of a 32-bit buffer with the default extended
\* block: a base boolean, a base number, a base string and the three extended ones
C12_Witness ==
    /\ parsed.stage = "done"
    /\ buffer = make_buffer(DataSet("U32", <<0, 1>>, <<80, -2>>,
                                    <<Present(Bytes(<<"H", "i">>)), Canceled, Present(<< >>)>>,
                                    DefaultExt), TRUE)
    /\ parsed.result.tag = "Ok"
    /\ parsed.result.value.booleans = {"am", "Curly"}
    /\ parsed.result.value.numbers = [k \in {"cols", "Shades"} |-> IF k = "cols" THEN 80 ELSE 1234]
    /\ DOMAIN parsed.result.value.strings = {"cbt", "cr", "Colors"}
    /\ parsed.result.value.strings["cr"] = << >>

\* the extended block of the buffer, when it has one and the base section is valid
HasExtended == parsed.stage = "done" /\ Even(parsed.position) + 10 <= Len(buffer)

\* C13: an extended number or string that produces a value under the short name
\* of a base entry of the same kind replaces it in the map parse returns; one that
\* produces no value leaves the base entry.
C13_ExtendedOverwritesBase ==
    HasExtended /\ parsed.result.tag = "Ok" =>
        \A data_set \in TableDataSets :
            buffer = make_buffer(data_set, TRUE) =>
                /\ \A i \in ExtPositive(data_set) :
                      parsed.result.value.numbers[NameOf(data_set.ext_numbers[i][1])]
                          = data_set.ext_numbers[i][2]
                /\ \A i \in ExtPresent(data_set) :
                      parsed.result.value.strings[NameOf(data_set.ext_strings[i][1])]
                          = data_set.ext_strings[i][2].value
                /\ \A k \in DOMAIN parsed.terminfo.numbers :
                      (\A i \in ExtPositive(data_set) : NameOf(data_set.ext_numbers[i][1]) # k)
                          => parsed.result.value.numbers[k] = parsed.terminfo.numbers[k]
                /\ \A k \in DOMAIN parsed.terminfo.strings :
                      (\A i \in ExtPresent(data_set) : NameOf(data_set.ext_strings[i][1]) # k)
                          => parsed.result.value.strings[k] = parsed.terminfo.strings[k]

\* the base section gave cols = 80, it = 80 and cbt = "Hi", the extended block
\* cols = 132, it = -1 and cbt = "Ding", and parse has returned the extended
\* values that are present
C13_Witness ==
    /\ HasExtended
    /\ parsed.terminfo.numbers = [k \in {"cols", "it"} |-> 80]
    /\ "cbt" \in DOMAIN parsed.terminfo.strings
    /\ parsed.terminfo.strings["cbt"] = Bytes(<<"H", "i">>)
    /\ parsed.result.tag = "Ok"
    /\ parsed.result.value.numbers["cols"] = 132
    /\ parsed.result.value.numbers["it"] = 80
    /\ parsed.result.value.strings["cbt"] = Bytes(<<"D", "i", "n", "g">>)
    /\ parsed.result.value.strings["cr"] = << >>

\* the buffer is that of a data set, cut to its length
CutOf(data_set) ==
    /\ BaseLen(data_set) <= Len(buffer)
    /\ Len(buffer) <= Len(make_buffer(data_set, TRUE))
    /\ buffer = SubSeq(make_buffer(data_set, TRUE), 1, Len(buffer))

\* the entries of the base section alone
BaseOnly ==
    Ok([booleans |-> parsed.terminfo.booleans, numbers |-> parsed.terminfo.numbers,
        strings |-> parsed.terminfo.strings])

\* C14 as stated: parse returns Ok for a buffer whose extended block is missing or
\* cut short at any point, inside its header, its tables or its string pool
C14_TruncatedTrailerTolerated ==
    parsed.stage = "done" =>
        \A data_set \in CutDataSets :
            CutOf(data_set) /\ Len(buffer) < Len(make_buffer(data_set, TRUE))
                => parsed.result.tag = "Ok"

\* C14: a missing extended block, or one cut short inside its 10-byte header, is
\* tolerated: parse returns Ok with the entries of the base section alone. A
\* block whose header is whole and whose tables or string pool are cut short
\* makes parse fail with UnsupportedFormat.
C14_ShortHeaderTolerated ==
    parsed.stage = "done" =>
        \A data_set \in CutDataSets :
            CutOf(data_set) =>
                /\ parsed.position = BaseLen(data_set)
                /\ Len(buffer) < Even(BaseLen(data_set)) + 10 => parsed.result = BaseOnly
                /\ /\ Len(buffer) >= Even(BaseLen(data_set)) + 10
                   /\ Len(buffer) < Len(make_buffer(data_set, TRUE))
                   => parsed.result = ParseErr("UnsupportedFormat")
                /\ Len(buffer) = Len(make_buffer(data_set, TRUE))
                   => parsed.result = Ok(Encoded(data_set, TRUE))

\* parse has returned the base entries of a buffer that ends inside the header of
\* its extended block
C14_Witness ==
    /\ parsed.stage = "done"
    /\ \E data_set \in CutDataSets :
          /\ CutOf(data_set)
          /\ Len(buffer) = Even(BaseLen(data_set)) + 9
    /\ parsed.result = BaseOnly
    /\ parsed.result.value.numbers = [k \in {"cols"} |-> 80]

\* parse has returned this error
Fails(error) == parsed.stage = "done" => parsed.result = error

\* C15 as stated, for the offsets: the offset of a value or of a name outside its
\* region, the first offset after the region included, gives UnsupportedFormat
C15_OffsetOutsideUnsupported ==
    \A number_type \in {"U16", "U32"}, d \in {0} \cup BadOffsets :
        /\ buffer = WithValueOffset(number_type, PoolLen + d)
              => Fails(ParseErr("UnsupportedFormat"))
        /\ \A k \in 1..3 :
              buffer = WithNameOffset(number_type, k, NamesLen + d)
                  => Fails(ParseErr("UnsupportedFormat"))

\* C15: a structural fault inside a present extended block makes parse return
\* that error and no Terminfo, the base section being valid: a boolean byte other
\* than 0 and 1 gives InvalidBooleanValue(byte); a value or a name that no NUL
\* ends, an offset equal to the length of its region included, gives
\* UnterminatedString; the offset of a value or of a name greater than the length
\* of its region, or a sentinel as the offset of the name of a boolean 1 or of a
\* positive number, gives UnsupportedFormat; a name that is not valid UTF-8
\* gives Utf8.
C15_ExtendedFaultsReported ==
    \A number_type \in {"U16", "U32"} :
        /\ \A b \in BadBooleans :
              buffer = WithBoolean(number_type, b) => Fails(InvalidBooleanValue(b))
        /\ \A o \in {0, PoolLen - 1} :
              buffer = WithoutLastNul(number_type, o) => Fails(ParseErr("UnterminatedString"))
        /\ buffer = WithValueOffset(number_type, PoolLen) => Fails(ParseErr("UnterminatedString"))
        /\ \A d \in BadOffsets :
              buffer = WithValueOffset(number_type, PoolLen + d)
                  => Fails(ParseErr("UnsupportedFormat"))
        /\ \A k \in 1..3 :
              /\ buffer = WithNameOffset(number_type, k, NamesLen)
                    => Fails(ParseErr("UnterminatedString"))
              /\ \A d \in BadOffsets :
                    buffer = WithNameOffset(number_type, k, NamesLen + d)
                        => Fails(ParseErr("UnsupportedFormat"))
              /\ \A b \in BadLeadBytes :
                    buffer = WithLeadByte(number_type, k, b) => Fails(ParseErr("Utf8"))
        /\ \A k \in 1..2, o \in Sentinels :
              buffer = WithNameOffset(number_type, k, o) => Fails(ParseErr("UnsupportedFormat"))
        /\ parsed.stage = "done" /\ parsed.result.tag = "Err" =>
              /\ buffer # Sound(number_type)
              /\ parsed.terminfo.numbers = [k \in {"cols"} |-> 80]

\* parse has returned InvalidBooleanValue(255) for the extended boolean 255 of a
\* buffer whose base section gave its entries
C15_Witness ==
    /\ parsed.stage = "done"
    /\ buffer \in {WithBoolean("U32", 255), WithValueOffset("U32", PoolLen)}
    /\ parsed.terminfo.booleans = {"bw"}
    /\ parsed.result \in {InvalidBooleanValue(255), ParseErr("UnterminatedString")}

\* the pool of the buffer, the offset of its slot i, and whether a NUL occurs in
\* the pool at or after an offset
PoolOf(buf) == SubSeq(buf, StrTableAt(IF MagicWidth(buf) = 2 THEN "U16" ELSE "U32") + 1, Len(buf))

SlotOffset(buf, i) ==
    HeaderField(buf, StrOffsetsAt(IF MagicWidth(buf) = 2 THEN "U16" ELSE "U32"), i - 1)

NulFrom(pool, o) == {j \in (o + 1)..Len(pool) : pool[j] = 0}

\* the pool bytes from the offset o up to but excluding the first NUL
UpToNul(pool, o) ==
    SubSeq(pool, o + 1, (CHOOSE j \in NulFrom(pool, o) : \A l \in NulFrom(pool, o) : j <= l) - 1)

IsSentinel(o) == o \in Sentinels

\* C16 as stated, for an offset outside the pool: parse fails with
\* UnsupportedFormat when the offset of a slot is at least the size of the pool,
\* the size itself included
C16_OffsetAtPoolEndUnsupported ==
    parsed.stage = "done" =>
        LET o == SlotOffset(buffer, 1)
        IN  ~IsSentinel(o) /\ o >= Len(PoolOf(buffer)) => parsed.result = ParseErr("UnsupportedFormat")

\* C16: for a base string slot with a non-sentinel offset o: when o is at most
\* the size of the pool and a NUL occurs at or after o, the value is the pool
\* bytes from o up to but excluding the first NUL, so no string of the result
\* holds a 0 byte; when the pool ends without a NUL at or after o, the size of
\* the pool as offset included, parse fails with UnterminatedString; when o is
\* greater than the size of the pool, parse fails with UnsupportedFormat.
C16_BaseStringSlots ==
    parsed.stage = "done" =>
        LET pool == PoolOf(buffer)
            first == SlotOffset(buffer, 1)
            second == SlotOffset(buffer, 2)
        IN  /\ ~IsSentinel(first) /\ first > Len(pool)
                  => parsed.result = ParseErr("UnsupportedFormat")
            /\ ~IsSentinel(first) /\ first <= Len(pool) /\ NulFrom(pool, first) = {}
                  => parsed.result = ParseErr("UnterminatedString")
            /\ (IsSentinel(first) \/ (first <= Len(pool) /\ NulFrom(pool, first) # {}))
               /\ NulFrom(pool, second) = {}
                  => parsed.result = ParseErr("UnterminatedString")
            /\ parsed.result.tag = "Ok" =>
                  /\ IsSentinel(first) <=> ("cbt" \notin DOMAIN parsed.result.value.strings)
                  /\ ~IsSentinel(first) => (parsed.result.value.strings["cbt"] = UpToNul(pool, first))
                  /\ parsed.result.value.strings["bel"] = UpToNul(pool, second)
                  /\ \A k \in DOMAIN parsed.result.value.strings :
                        \A j \in 1..Len(parsed.result.value.strings[k]) :
                           parsed.result.value.strings[k][j] # 0

\* parse has returned the tail "llo" of the pool for a slot whose offset is 5
C16_Witness ==
    /\ parsed.stage = "done"
    /\ SlotOffset(buffer, 1) = 5
    /\ parsed.result.tag = "Ok"
    /\ parsed.result.value.strings["cbt"] = Bytes(<<"l", "l", "o">>)

\* parse has failed with UnterminatedString for a slot whose offset is the size of
\* a pool that ends with a NUL
C16_AtPoolEnd ==
    /\ parsed.stage = "done"
    /\ SlotOffset(buffer, 1) = Len(PoolOf(buffer))
    /\ PoolOf(buffer)[Len(PoolOf(buffer))] = 0
    /\ parsed.result = ParseErr("UnterminatedString")

\* the step executes the binary operator cur on the numbers x (pushed first) and y
BinaryStep(cur, x, y) ==
    /\ AtByte
    /\ state = Percent
    /\ Chr(cap[pos]) = cur
    /\ Len(stack) >= 2
    /\ stack[Len(stack) - 1] = Number(x)
    /\ stack[Len(stack)] = Number(y)

\* C17: division by zero is a runtime error, not a crash: %/ or %m executed with
\* a zero divisor on top of the stack makes expand return an error value to the
\* caller; it never panics.
C17_DivisionByZeroStep ==
    \A cur \in {"/", "m"}, x \in ArithValues :
        BinaryStep(cur, x, 0) => pc' = "returned" /\ result'.tag = "Err"

C17_DivisionByZeroIsError == [][C17_DivisionByZeroStep]_vars

\* expand has panicked at the %/ of %p1%p2%/%d with the parameters 1 and 0
C17_PanicOnZeroDivisor ==
    /\ pc = "panicked"
    /\ result = Panic
    /\ cap = Bytes(<<"%", "p", "1", "%", "p", "2", "%", "/", "%", "d">>)
    /\ params = <<Number(1), Number(0)>>
    /\ pos = 8

\* the step executes %i for the first time in the call, on two numbers
FirstIncrementStep ==
    /\ AtByte
    /\ state = Percent
    /\ Chr(cap[pos]) = "i"
    /\ ~incremented
    /\ IsNumber(mparams[1])
    /\ IsNumber(mparams[2])

\* the step goes on with r pushed in place of the two operands
Pushes(r) ==
    /\ pc' = "loop"
    /\ result' = Running
    /\ stack' = Append(SubSeq(stack, 1, Len(stack) - 2), Number(r))

\* C18: %+, %-, %* (and %/ for i32::MIN / -1, and the +1 of %i) compute in 32-bit
\* two's complement and wrap on overflow: the result pushed is (x op y) mod 2^32
\* taken as signed; the overflow is neither reported as an error nor aborts the
\* expansion.
C18_WrapStep ==
    /\ \A x, y \in ArithValues :
          /\ BinaryStep("+", x, y) => Pushes(WrapAdd(x, y))
          /\ BinaryStep("-", x, y) => Pushes(WrapSub(x, y))
          /\ BinaryStep("*", x, y) => Pushes(WrapMul(x, y))
    /\ BinaryStep("/", MinI32, -1) => Pushes(MinI32)
    /\ FirstIncrementStep =>
          /\ pc' = "loop"
          /\ mparams'[1] = Number(WrapAdd(mparams[1].n, 1))
          /\ mparams'[2] = Number(WrapAdd(mparams[2].n, 1))

C18_ArithmeticWraps == [][C18_WrapStep]_vars

\* expand has panicked at the %/ of %p1%p2%/%d with the parameters i32::MIN and -1
C18_PanicOnOverflow ==
    /\ pc = "panicked"
    /\ result = Panic
    /\ cap = Bytes(<<"%", "p", "1", "%", "p", "2", "%", "/", "%", "d">>)
    /\ params = <<Number(MinI32), Number(-1)>>
    /\ pos = 8

\* in a build without overflow checks the sum 2147483647 + 1 has been printed as
\* -2147483648
C18_WrappedSum ==
    /\ pc = "returned"
    /\ overflow_checks = "off"
    /\ cap = Bytes(<<"%", "p", "1", "%", "p", "2", "%", "+", "%", "d">>)
    /\ params = <<Number(MaxI32), Number(1)>>
    /\ result = Ok(Bytes(<<"-", "2", "1", "4", "7", "4", "8", "3", "6", "4", "8">>))

\* the text of the constant of a capability %{text}%d
ConstText == SubSeq(cap, 3, Len(cap) - 3)

IsDigitByte(b) == Ord("0") <= b /\ b <= Ord("9")

\* a numeral without its leading zeros
RECURSIVE StripZeros(_)
StripZeros(s) == IF s # << >> /\ s[1] = Ord("0") THEN StripZeros(Tail(s)) ELSE s

MaxText == Bytes(<<"2", "1", "4", "7", "4", "8", "3", "6", "4", "7">>)

\* the numeral s, all digits, denotes more than 2147483647
ExceedsMax(s) ==
    LET t == StripZeros(s)
    IN  \/ Len(t) > Len(MaxText)
        \/ /\ Len(t) = Len(MaxText)
           /\ \E i \in 1..Len(t) : t[i] > MaxText[i] /\ \A j \in 1..(i - 1) : t[j] = MaxText[j]

\* the value of a numeral that does not exceed the maximum
RECURSIVE ValueOf(_)
ValueOf(s) == IF s = << >> THEN 0 ELSE 10 * ValueOf(Front(s)) + (Last(s) - Ord("0"))

\* the bytes of the text at which the constant fails: a byte that is no digit, or
\* the digit that takes the value above the maximum
Faulty(text) ==
    {i \in 1..Len(text) : ~IsDigitByte(text[i]) \/ ExceedsMax(SubSeq(text, 1, i))}

FirstFaulty(text) == CHOOSE i \in Faulty(text) : \A j \in Faulty(text) : i <= j

\* C19: %{digits} pushes the decimal value of the digits for every value
\* 0..2147483647, and %{} pushes 0; the digit that would take the accumulated
\* value above 2147483647 returns IntegerConstantOverflow at that digit; a byte
\* that is no digit before the closing brace, a minus sign included, returns
\* MalformedIntegerConstant.
C19_IntegerConstants ==
    /\ pc = "loop" /\ pos = Len(cap) - 1 =>
          /\ Faulty(ConstText) = {}
          /\ stack = <<Number(ValueOf(ConstText))>>
          /\ 0 <= ValueOf(ConstText) /\ ValueOf(ConstText) <= MaxI32
    /\ pc = "returned" =>
          IF Faulty(ConstText) = {}
          THEN result = Ok(DecDigits(ValueOf(ConstText)))
          ELSE /\ pos = 2 + FirstFaulty(ConstText)
               /\ result = IF IsDigitByte(ConstText[FirstFaulty(ConstText)])
                           THEN Err("IntegerConstantOverflow", "")
                           ELSE Err("MalformedIntegerConstant", "")

\* %{2147483647} has pushed 2147483647
C19_Witness ==
    /\ pc = "loop"
    /\ cap = Bytes(<<"%", "{">>) \o MaxText \o Bytes(<<"}", "%", "d">>)
    /\ pos = Len(cap) - 1
    /\ stack = <<Number(MaxI32)>>

\* %{2147483648} has returned IntegerConstantOverflow at its last digit
C19_OverflowReached ==
    /\ pc = "returned"
    /\ ConstText = Front(MaxText) \o <<Ord("8")>>
    /\ pos = 2 + Len(MaxText)
    /\ result = Err("IntegerConstantOverflow", "")

\* a capability [%p1]%[.]digits d: the length of its push, whether the digits
\* are a precision, and the digits
PushLen == IF Len(cap) >= 2 /\ cap[2] = Ord("p") THEN 3 ELSE 0

IsPrecision == cap[PushLen + 2] = Ord(".")

DigitsAt == PushLen + 2 + (IF IsPrecision THEN 1 ELSE 0)

FormatText == SubSeq(cap, DigitsAt, Len(cap) - 1)

\* the digits of the text that take the value above 65535
Overflowing(text) == {i \in 1..Len(text) : ValueOf(SubSeq(text, 1, i)) > MaxU16}

FirstOverflowing(text) == CHOOSE i \in Overflowing(text) : \A j \in Overflowing(text) : i <= j

Pushed == IF PushLen = 0 THEN << >> ELSE <<Number(42)>>

\* C20: in a format pattern the width and the precision are accumulated as
\* unsigned 16-bit decimals: every value 0..65535 is accepted, and the digit that
\* would make the width (the precision) exceed 65535 returns FormatWidthOverflow
\* (FormatPrecisionOverflow) at that digit, before the conversion character is
\* read or the stack is examined.
C20_WidthAndPrecision ==
    (pc \in {"loop", "returned"} /\ cap # << >> /\ FormatText # << >>) =>
        /\ pc = "loop" /\ pos = Len(cap) =>
              /\ Overflowing(FormatText) = {}
              /\ state.tag = "FormatPattern"
              /\ IF IsPrecision
                 THEN state.flags.precision = Some(ValueOf(FormatText)) /\ state.flags.width = 0
                 ELSE state.flags.width = ValueOf(FormatText) /\ state.flags.precision = None
        /\ pc = "returned" /\ Overflowing(FormatText) # {} =>
              /\ result = IF IsPrecision THEN Err("FormatPrecisionOverflow", "")
                          ELSE Err("FormatWidthOverflow", "")
              /\ pos = DigitsAt - 1 + FirstOverflowing(FormatText)
              /\ stack = Pushed
        /\ pc = "returned" /\ Overflowing(FormatText) = {} =>
              /\ result.tag = "Err" => result = Err("StackUnderflow", "d") /\ PushLen = 0
              /\ result.tag = "Ok" => Len(result.value) >= ValueOf(FormatText)

\* %65536d has returned FormatWidthOverflow at the digit 6, the stack being empty
C20_Witness ==
    /\ pc = "returned"
    /\ cap = Bytes(<<"%", "6", "5", "5", "3", "6", "d">>)
    /\ pos = 6
    /\ stack = << >>
    /\ result = Err("FormatWidthOverflow", "")

\* %p1%65535d has printed 42 in 65535 characters
C20_WidestAccepted ==
    /\ pc = "returned"
    /\ cap = Bytes(<<"%", "p", "1", "%", "6", "5", "5", "3", "5", "d">>)
    /\ result.tag = "Ok"
    /\ Len(result.value) = MaxU16

\* the entries of a TERMINFO_DIRS value in which the first empty entry stands for
\* the default list and the other empty entries for nothing
WithDefaults(entries) ==
    LET empty == {i \in 1..Len(entries) : entries[i] = << >>}
    IN  Flatten([i \in 1..Len(entries) |->
                    IF entries[i] # << >> THEN <<StrOf(entries[i])>>
                    ELSE IF \A j \in empty : i <= j THEN TERMINFO_DIRS
                    ELSE << >>])
        \o (IF empty = {} THEN TERMINFO_DIRS ELSE << >>)

\* the directories of TERMINFO and of the home directory
Leading(env) ==
    (IF env.terminfo.some THEN <<env.terminfo.v>> ELSE << >>)
    \o (IF env.home.some THEN <<env.home.v \o "/.terminfo">> ELSE << >>)

\* how many times a directory occurs in a list
Occurrences(dirs, dir) == Cardinality({i \in 1..Len(dirs) : dirs[i] = dir})

\* C21: search_directories returns, in this order: $TERMINFO if set,
\* <home>/.terminfo if the home directory is known, the entries of $TERMINFO_DIRS
\* in order with an empty entry replaced by the default list, then the default
\* list; the five default directories are contributed exactly once, at the first
\* empty entry if there is one and at the end otherwise.
C21_SearchOrder ==
    search.stage = "returned" =>
        /\ ~search.env.terminfo_dirs.some =>
              search.search_dirs = Leading(search.env) \o TERMINFO_DIRS
        /\ \A entries \in EntryLists :
              search.env.terminfo_dirs = Some(Intercalate(entries)) =>
                  search.search_dirs = Leading(search.env) \o WithDefaults(entries)
        /\ \A i \in 1..Len(TERMINFO_DIRS) :
              Occurrences(search.search_dirs, TERMINFO_DIRS[i]) = 1

\* search_directories has returned the directories of tests::search_order_with_empty_element
\* for TERMINFO_DIRS = /a::/b: the default list stands between /a and /b
C21_Witness ==
    /\ search.stage = "returned"
    /\ search.env.terminfo_dirs = Some(<<"/", "a", ":", ":", "/", "b">>)
    /\ search.search_dirs
         = <<"/my/terminfo", "/home/user/.terminfo", "/a">> \o TERMINFO_DIRS \o <<"/b">>

\* the parts of the capability of the call
PartsOf(c) == (CHOOSE e \in FlagTable : e[1] = c)[2]

HasFlag(parts, ch) == \E i \in parts.flags : FlagBytes[i] = ch

\* digits with zeros on the left up to at least n digits
AtLeastDigits(digs, n) ==
    IF Len(digs) >= n THEN digs ELSE [i \in 1..(n - Len(digs)) |-> Ord("0")] \o digs

\* body with spaces up to the width, on the right when left is set
Justified(body, parts) ==
    LET width == IF parts.width.some THEN parts.width.v ELSE 0
        spaces == [i \in 1..(width - Len(body)) |-> Ord(" ")]
    IN  IF HasFlag(parts, "-") THEN body \o spaces ELSE spaces \o body

\* a call on %p1%:..., with a number for %d %o %x %X or a string for %s, has returned
FlagsReturned ==
    /\ pc = "returned"
    /\ cap \in FlagCaps
    /\ IsNumber(params[1]) <=> PartsOf(cap).op # "s"

\* C22: %x / %X with the # flag prefix 0x / 0X to every non-zero value and put no
\* prefix on the value 0; a precision zero-pads the hex digits, the prefix not
\* counted, to at least that many digits; the + and space flags have no effect.
C22_HexPrefixAndPrecision ==
    FlagsReturned /\ PartsOf(cap).op \in {"x", "X"} =>
        LET parts == PartsOf(cap)
            n == params[1].n
            upper == parts.op = "X"
            digs == RadixDigits(n, 4, IF upper THEN UpperHex ELSE LowerHex)
            padded == IF parts.precision.some
                      THEN AtLeastDigits(digs, parts.precision.v) ELSE digs
            prefix == IF HasFlag(parts, "#") /\ n # 0
                      THEN Bytes(<<"0", IF upper THEN "X" ELSE "x">>) ELSE << >>
        IN  result = Ok(Justified(prefix \o padded, parts))

\* %p1%:-+ #10.5x with 63 has returned 0x0003f and three spaces
C22_Witness ==
    /\ pc = "returned"
    /\ cap = Bytes(<<"%", "p", "1", "%", ":", "-", "+", " ", "#", "1", "0", ".", "5", "x">>)
    /\ params = <<Number(63)>>
    /\ result = Ok(Bytes(<<"0", "x", "0", "0", "0", "3", "f", " ", " ", " ">>))

\* %p1%:#.5x with 0 has returned 00000
C22_ZeroUnprefixed ==
    /\ pc = "returned"
    /\ cap = Bytes(<<"%", "p", "1", "%", ":", "#", ".", "5", "x">>)
    /\ params = <<Number(0)>>
    /\ result = Ok(Bytes(<<"0", "0", "0", "0", "0">>))

\* C27: %d with a precision p emits an optional sign character ('-' for a negative
\* value; '+' for a non-negative value under the + flag; ' ' for a non-negative
\* value under the space flag when + is not set) followed by the decimal digits
\* of |n| zero-padded on the left to at least p digits; the sign character is
\* never counted in p.
C27_DecimalPrecision ==
    FlagsReturned /\ PartsOf(cap).op = "d" /\ PartsOf(cap).precision.some =>
        LET parts == PartsOf(cap)
            n == params[1].n
            sign == IF n < 0 THEN Bytes(<<"-">>)
                    ELSE IF HasFlag(parts, "+") THEN Bytes(<<"+">>)
                    ELSE IF HasFlag(parts, " ") THEN Bytes(<<" ">>)
                    ELSE << >>
            digs == AtLeastDigits(DecDigits(n), parts.precision.v)
        IN  result = Ok(Justified(sign \o digs, parts))

\* %p1%:.5d with -42 has returned -00042: five digits after the sign
C27_Witness ==
    /\ pc = "returned"
    /\ cap = Bytes(<<"%", "p", "1", "%", ":", ".", "5", "d">>)
    /\ params = <<Number(-42)>>
    /\ result = Ok(Bytes(<<"-", "0", "0", "0", "4", "2">>))

\* %p1%:+ .5d with 42 has returned +00042, and %p1%: .5d would return a space
\* and 00042
C27_PlusOverSpace ==
    /\ pc = "returned"
    /\ cap = Bytes(<<"%", "p", "1", "%", ":", "+", " ", ".", "5", "d">>)
    /\ params = <<Number(42)>>
    /\ result = Ok(Bytes(<<"+", "0", "0", "0", "4", "2">>))

\* the flags a pattern made of these parts sets
FlagsOf(parts) ==
    [width |-> IF parts.width.some THEN parts.width.v ELSE 0,
     precision |-> parts.precision,
     alternate |-> HasFlag(parts, "#"),
     left |-> HasFlag(parts, "-"),
     sign |-> HasFlag(parts, "+"),
     space |-> HasFlag(parts, " ")]

\* the body of the conversion before the width is applied
BodyOf(parts, val) ==
    IF parts.op = "s"
    THEN IF parts.precision.some /\ parts.precision.v < Len(val.s)
         THEN [i \in 1..parts.precision.v |-> val.s[i]] ELSE val.s
    ELSE FormatBody(val, parts.op, FlagsOf(parts), TRUE).value

Max(a, b) == IF a >= b THEN a ELSE b

\* C28: for every conversion the formatted body (for %s: the string cut to its
\* first p bytes when a precision p smaller than its length is set) is padded
\* with spaces up to the width when it is shorter, on the right under the - flag
\* and on the left otherwise, and is never cut by the width; the emitted length
\* is max(width, body length).
C28_WidthPadsNeverCuts ==
    FlagsReturned =>
        LET parts == PartsOf(cap)
            body == BodyOf(parts, params[1])
        IN  /\ result = Ok(Justified(body, parts))
            /\ Len(result.value) = Max(FlagsOf(parts).width, Len(body))

\* %p1%:-10.2s with One has returned On and eight spaces
C28_Witness ==
    /\ pc = "returned"
    /\ cap = Bytes(<<"%", "p", "1", "%", ":", "-", "1", "0", ".", "2", "s">>)
    /\ params = <<String(Bytes(<<"O", "n", "e">>))>>
    /\ result = Ok(Bytes(<<"O", "n", " ", " ", " ", " ", " ", " ", " ", " ">>))

\* %p1%:3.5d with 42 has returned 00042: longer than the width and not cut
C28_LongerThanWidth ==
    /\ pc = "returned"
    /\ cap = Bytes(<<"%", "p", "1", "%", ":", "3", ".", "5", "d">>)
    /\ params = <<Number(42)>>
    /\ result = Ok(Bytes(<<"0", "0", "0", "4", "2">>))

\* parse has returned this error from parse_base
FailsInBase(kind) == parsed.stage = "done" /\ parsed.result = ParseErr(kind)

\* C23: parse validates the base header in a fixed order: fewer than 12 bytes
\* give IO (so does the empty buffer), then a magic number other than 0x011A and
\* 0x021E gives BadMagic, then bool_count > 44 or num_count > 39 or
\* str_count > 414 gives UnsupportedFormat; counts equal to 44, 39 and 414 are
\* accepted.
C23_HeaderOrder ==
    parsed.stage # "start" =>
        IF Len(buffer) < 12 THEN FailsInBase("IO")
        ELSE IF HeaderField(buffer, 0, 0) \notin {282, 542} THEN FailsInBase("BadMagic")
        ELSE IF \/ HeaderField(buffer, 0, 2) > 44
                \/ HeaderField(buffer, 0, 3) > 39
                \/ HeaderField(buffer, 0, 4) > 414
             THEN FailsInBase("UnsupportedFormat")
        ELSE buffer \in HeaderSound => parsed.result.tag # "Err"

\* a buffer with 44 booleans, 39 numbers and 414 strings has been parsed, and
\* its last number has its name
C23_Witness ==
    /\ parsed.stage = "done"
    /\ Len(buffer) >= 12
    /\ HeaderField(buffer, 0, 2) = 44
    /\ HeaderField(buffer, 0, 3) = 39
    /\ HeaderField(buffer, 0, 4) = 414
    /\ parsed.result.tag = "Ok"
    /\ Cardinality(DOMAIN parsed.result.value.numbers) = 39

\* a whole buffer with a wrong magic number and 45 booleans has given BadMagic
C23_MagicBeforeCounts ==
    /\ FailsInBase("BadMagic")
    /\ Len(buffer) >= 12
    /\ HeaderField(buffer, 0, 2) = 45

\* the empty buffer has given IO
C23_EmptyBuffer == buffer = << >> /\ FailsInBase("IO")

SeekTags == {"SeekIfElse", "SeekIfElsePercent", "SeekIfEnd", "SeekIfEndPercent"}

\* expand is skipping: it searches for a %e or a %;
Skipping == pc = "loop" /\ state.tag \in SeekTags

\* the nesting depth after a step taken while skipping at depth level: a byte
\* after % changes it, +1 for ? and -1 for ;, the ; at depth 0 ending the search
DepthStep(level) ==
    IF pos <= Len(cap) /\ state.tag \in {"SeekIfElsePercent", "SeekIfEndPercent"}
    THEN CASE Chr(cap[pos]) = "?" -> state'.tag \in SeekTags /\ state'.level = level + 1
           [] Chr(cap[pos]) = ";" ->
                 IF level = 0 THEN state' = Nothing
                 ELSE state'.tag \in SeekTags /\ state'.level = level - 1
           [] Chr(cap[pos]) = "e" /\ level = 0 /\ state.tag = "SeekIfElsePercent" ->
                 state' = Nothing
           [] OTHER -> state'.tag \in SeekTags /\ state'.level = level
    ELSE state'.tag \in SeekTags /\ state'.level = level

C24_SkipStep ==
    Skipping =>
        /\ output' = output
        /\ stack' = stack
        /\ static_variables' = static_variables
        /\ dynamic_variables' = dynamic_variables
        /\ mparams' = mparams
        /\ pc' # "panicked"
        /\ result'.tag # "Err"
        /\ pc' = "loop" => DepthStep(state.level)

\* C24: while expand skips (after a %t that popped 0, or after the %e that follows
\* an executed then-branch) no byte is emitted, no directive is executed, the
\* stack and the static and dynamic variables are unchanged, and no error can be
\* returned: %Y, %PA and %/ inside the skipped region are ignored; only %? and %;
\* change the nesting depth.
C24_SkippingIsInert == [][C24_SkipStep]_vars

\* %PA has been skipped on an empty stack after the %t of %p1%t... popped 0
C24_Witness ==
    /\ Skipping
    /\ state = SeekIfElse(0)
    /\ params = <<Number(0)>>
    /\ stack = << >>
    /\ pos = 9
    /\ SubSeq(cap, 1, 8) = Bytes(<<"%", "p", "1", "%", "t", "%", "P", "A">>)

\* %Y has been skipped after the %e of %p1%tA%e..., whose then-branch emitted A
C24_SkippedAfterElse ==
    /\ Skipping
    /\ state = SeekIfEnd(0)
    /\ params = <<Number(7)>>
    /\ output = Bytes(<<"A">>)
    /\ pos = 11
    /\ SubSeq(cap, 1, 10) = Bytes(<<"%", "p", "1", "%", "t", "A", "%", "e", "%", "Y">>)

Abs(n) == IF n < 0 THEN -n ELSE n

\* the quotient of x by y rounded towards zero, y not 0
Quotient(x, y) ==
    CHOOSE q \in (-Abs(x))..Abs(x) :
        /\ Abs(q) * Abs(y) <= Abs(x)
        /\ Abs(x) - Abs(q) * Abs(y) < Abs(y)
        /\ (q # 0 => (q < 0 <=> ((x < 0) # (y < 0))))

\* x op y
Applied(cur, x, y) ==
    CASE cur = "+" -> x + y
      [] cur = "-" -> x - y
      [] cur = "*" -> x * y
      [] cur = "/" -> Quotient(x, y)
      [] cur = "m" -> x - Quotient(x, y) * y
      [] cur = "&" -> BitAnd(x, y)
      [] cur = "|" -> BitOr(x, y)
      [] cur = "^" -> BitXor(x, y)
      [] cur = "=" -> IF x = y THEN 1 ELSE 0
      [] cur = "<" -> IF x < y THEN 1 ELSE 0
      [] cur = ">" -> IF x > y THEN 1 ELSE 0
      [] cur = "A" -> IF x > 0 /\ y > 0 THEN 1 ELSE 0
      [] cur = "O" -> IF x > 0 \/ y > 0 THEN 1 ELSE 0

\* the step returns this error
Returns(error) == pc' = "returned" /\ result' = error

C25_BinaryStep ==
    \A cur \in BinaryOps :
        (AtByte /\ state = Percent /\ Chr(cap[pos]) = cur) =>
            IF Len(stack) < 2 THEN Returns(Err("StackUnderflow", cur))
            ELSE LET y == stack[Len(stack)]
                     x == stack[Len(stack) - 1]
                 IN  IF IsString(x) \/ IsString(y) THEN Returns(Err("TypeMismatch", cur))
                     ELSE IF cur \in {"/", "m"} /\ y.n = 0 THEN TRUE
                     ELSE /\ Pushes(Applied(cur, x.n, y.n))
                          /\ cur \in {"=", "<", ">", "A", "O"} => Top(stack').n \in {0, 1}

\* C25: for every binary operator + - * / m & | ^ = < > A O the value popped first
\* is the right operand y and the value popped second the left operand x, and the
\* result pushed is x op y; the comparisons push exactly 0 or 1; fewer than two
\* values on the stack give StackUnderflow(op), also when the only value is a
\* string; two values of which at least one is a string give TypeMismatch(op).
\* (The division by 0 is left to C17.)
C25_BinaryOperators == [][C25_BinaryStep]_vars

\* %p1%p2%/ with -7 and 2 has pushed -3
C25_Witness ==
    /\ pc = "loop"
    /\ pos = 9
    /\ cap = Bytes(<<"%", "p", "1", "%", "p", "2", "%", "/", "%", "d">>)
    /\ params = <<Number(-7), Number(2)>>
    /\ stack = <<Number(-3)>>

\* %p1%< with a string as its only value has returned StackUnderflow
C25_UnderflowOnString ==
    /\ pc = "returned"
    /\ cap = Bytes(<<"%", "p", "1", "%", "<", "%", "d">>)
    /\ params[1] = Two
    /\ result = Err("StackUnderflow", "<")

\* the call has returned this text
Gives(text) == result = Ok(Bytes(text))

\* C26: %t takes the then-branch for every non-zero number, the negative ones
\* included (only 0 starts the skip); %!, %A and %O take a number as true only
\* when it is strictly positive: %! pushes 0 for x > 0 and 1 for x <= 0, %A
\* pushes 1 exactly when x > 0 and y > 0, %O exactly when x > 0 or y > 0.
C26_Truth ==
    (pc = "returned" /\ cap \in TruthCaps) =>
        LET x == params[1].n
            y == params[2].n
        IN  /\ cap = ThenCap => Gives(IF x # 0 THEN <<"T">> ELSE <<"F">>)
            /\ cap = NotCap => Gives(IF x > 0 THEN <<"0">> ELSE <<"1">>)
            /\ cap = LogicalCap("A") => Gives(IF x > 0 /\ y > 0 THEN <<"1">> ELSE <<"0">>)
            /\ cap = LogicalCap("O") => Gives(IF x > 0 \/ y > 0 THEN <<"1">> ELSE <<"0">>)

\* %p1%tT%eF%; with -7 has returned T
C26_Witness ==
    /\ pc = "returned"
    /\ cap = ThenCap
    /\ params[1] = Number(-7)
    /\ Gives(<<"T">>)

\* %p1%!%d with -7 has returned 1
C26_NegativeIsFalse ==
    /\ pc = "returned"
    /\ cap = NotCap
    /\ params[1] = Number(-7)
    /\ Gives(<<"1">>)

Conversions == {"d", "o", "x", "X", "s"}

\* the step processes the byte cur in a format pattern
InPattern(cur) == AtByte /\ state.tag = "FormatPattern" /\ Chr(cap[pos]) = cur

C29_SignStep ==
    /\ \A cur \in {"+", "-"} :
          \* directly after %: the operator, on the two numbers of the stack
          /\ (AtByte /\ state = Percent /\ Chr(cap[pos]) = cur) =>
                IF Len(stack) < 2 THEN Returns(Err("StackUnderflow", cur))
                ELSE /\ Pushes(Applied(cur, stack[Len(stack) - 1].n, stack[Len(stack)].n))
                     /\ state' = Nothing
          \* in a pattern: the flag, while the pattern is in its flags part
          /\ InPattern(cur) =>
                IF state.fstate = "Flags"
                THEN /\ pc' = "loop"
                     /\ stack' = stack
                     /\ state' = FormatPattern(
                                    IF cur = "+" THEN [state.flags EXCEPT !.sign = TRUE]
                                    ELSE [state.flags EXCEPT !.left = TRUE], "Flags")
                ELSE Returns(Err("UnrecognizedFormatOption", cur))
    \* a pattern is opened after % by : # space . or a digit
    /\ (state.tag # "FormatPattern" /\ state'.tag = "FormatPattern") =>
          /\ AtByte
          /\ state = Percent
          /\ Chr(cap[pos]) \in {":", "#", " ", "."} \/ IsDigit(Chr(cap[pos]))
    \* after a width digit or a '.'
    /\ \A cur \in PatternBytes :
          (InPattern(cur) /\ state.fstate \in {"Width", "Precision"}) =>
              IF IsDigit(cur) \/ (cur = "." /\ state.fstate = "Width")
              THEN pc' = "loop" /\ state'.tag = "FormatPattern"
              ELSE Returns(Err("UnrecognizedFormatOption", cur))

\* C29: directly after % the bytes + and - are always the arithmetic operators
\* (they pop two numbers); they are read as the always-sign and the left-justify
\* flag only inside a format pattern opened by ':', '#', space, '.' or a digit,
\* and only while that pattern is still in its flags part: once a width digit or
\* '.' has been read, any byte that is not a digit, '.' (after a width) or a
\* conversion returns UnrecognizedFormatOption(byte).
C29_SignsAndFlags == [][C29_SignStep]_vars

\* in %p1%p2%:- the byte - has set the left-justify flag and popped nothing
C29_Witness ==
    /\ pc = "loop"
    /\ pos = 10
    /\ SubSeq(cap, 1, 9) = Bytes(<<"%", "p", "1", "%", "p", "2", "%", ":", "-">>)
    /\ state = FormatPattern([DefaultFlags EXCEPT !.left = TRUE], "Flags")
    /\ stack = <<Number(5), Number(3)>>

\* in %p1%p2%5- the byte - after the width has returned UnrecognizedFormatOption
C29_SignAfterWidth ==
    /\ pc = "returned"
    /\ pos = 9
    /\ Len(cap) >= 9
    /\ SubSeq(cap, 1, 9) = Bytes(<<"%", "p", "1", "%", "p", "2", "%", "5", "-">>)
    /\ result = Err("UnrecognizedFormatOption", "-")

\* in %p1%p2%- the byte - has subtracted 3 from 5
C29_OperatorAfterPercent ==
    /\ pc = "loop"
    /\ pos = 9
    /\ SubSeq(cap, 1, 8) = Bytes(<<"%", "p", "1", "%", "p", "2", "%", "-">>)
    /\ stack = <<Number(2)>>

\* the byte is a letter of A-Z or a-z
IsLetter(c) ==
    \/ Ord("A") <= c /\ c <= Ord("Z")
    \/ Ord("a") <= c /\ c <= Ord("z")

C30_NameStep ==
    /\ (AtByte /\ state = SetVar) =>
          IF stack = << >> THEN Returns(Err("StackUnderflow", "P"))
          ELSE IF IsLetter(cap[pos]) THEN pc' = "loop" /\ stack' = Front(stack)
          ELSE Returns(Err("InvalidVariableName", Chr(cap[pos])))
    /\ (AtByte /\ state = GetVar) =>
          IF IsLetter(cap[pos]) THEN pc' = "loop" /\ Front(stack') = stack
          ELSE Returns(Err("InvalidVariableName", Chr(cap[pos])))

\* C30: %P pops its value before it looks at the variable name: on an empty stack
\* %P followed by any byte, a valid letter or not (e.g. %P1), returns
\* StackUnderflow('P'); InvalidVariableName(byte) is returned by %P only when a
\* value was available and the byte is outside A-Z / a-z, and by %g for any byte
\* outside A-Z / a-z.
C30_PopBeforeName == [][C30_NameStep]_vars

\* %P1 on an empty stack has returned StackUnderflow('P')
C30_Witness ==
    /\ pc = "returned"
    /\ cap = Bytes(<<"%", "P", "1">>)
    /\ result = Err("StackUnderflow", "P")

\* %p1%P1 has returned InvalidVariableName('1'), and so has %g1
C30_InvalidName ==
    /\ pc = "returned"
    /\ cap \in {Bytes(<<"%", "p", "1", "%", "P", "1">>), Bytes(<<"%", "g", "1">>)}
    /\ result = Err("InvalidVariableName", "1")

SeekEndTags == {"SeekIfEnd", "SeekIfEndPercent"}

C31_ElseStep ==
    \* %e in normal mode: the skip to the end at depth 0, on any stack
    /\ (AtByte /\ state = Percent /\ Chr(cap[pos]) = "e") =>
          /\ pc' = "loop"
          /\ state' = SeekIfEnd(0)
          /\ output' = output
          /\ stack' = stack
    \* in that skip every byte is dropped; only the %; of depth 0 ends it, a %e
    \* does not
    /\ (AtByte /\ state.tag \in SeekEndTags) =>
          /\ pc' = "loop"
          /\ output' = output
          /\ state' = Nothing <=>
                (state = SeekIfEndPercent(0) /\ Chr(cap[pos]) = ";")
          /\ state' # Nothing => state'.tag \in SeekEndTags
    \* at the end of the capability the skip returns what was emitted before it
    /\ (pc = "loop" /\ pos > Len(cap) /\ state.tag \in SeekEndTags) =>
          pc' = "returned" /\ result' = Ok(output)

\* C31: a %e met in normal mode always enters the skip to the end at depth 0,
\* whether or not a conditional was opened and whether or not a then-branch was
\* executed: every byte up to the matching %; (or, when there is none, up to the
\* end of the capability) is dropped, a %e in between does not stop the skip, and
\* expand still returns Ok.
C31_ElseAlwaysSkips == [][C31_ElseStep]_vars

\* in %p1%t%;%ex%; with 0 the %e after the closed conditional has started the
\* skip, and x has been dropped
C31_Witness ==
    /\ pc = "loop"
    /\ pos = 11
    /\ cap = Bytes(<<"%", "p", "1", "%", "t", "%", ";", "%", "e", "x", "%", ";">>)
    /\ params = <<Number(0)>>
    /\ state = SeekIfEnd(0)
    /\ output = << >>

\* %p1%tA%e%e%?x%; with 7 has returned A: the second %e did not end the skip, and
\* the capability ended inside it
C31_EndInsideSkip ==
    /\ pc = "returned"
    /\ cap = Bytes(<<"%", "p", "1", "%", "t", "A", "%", "e", "%", "e", "%", "?", "x", "%", ";">>)
    /\ params = <<Number(7)>>
    /\ state.tag = "SeekIfEnd"
    /\ result = Ok(Bytes(<<"A">>))

OneByteTags == {"Percent", "PushParam", "SetVar", "GetVar", "CharConstant", "CharClose"}

PersistentTags == {"Delay", "IntConstant", "FormatPattern"} \cup SeekTags

\* the states a byte after % opens: a longer directive or a skip
OpenedByPercent ==
    {"PushParam", "SetVar", "GetVar", "CharConstant", "IntConstant", "FormatPattern",
     "SeekIfElse", "SeekIfEnd"}

\* the byte that completes the directive of a persistent state
Completes(st, cur) ==
    CASE st.tag = "Delay" -> cur = ">"
      [] st.tag = "IntConstant" -> cur = "}"
      [] st.tag = "FormatPattern" -> cur \in Conversions
      [] st.tag \in {"SeekIfElsePercent", "SeekIfEndPercent"} -> cur = ";" /\ st.level = 0
      [] OTHER -> FALSE

C32_ByteStep ==
    (AtByte /\ pc' = "loop") =>
        \* one byte is consumed
        /\ pos' = pos + 1
        \* a one-byte state is left for Normal or for the directive the byte opened
        /\ state.tag \in OneByteTags =>
              /\ state'.tag # state.tag
              /\ CASE state = Percent -> state'.tag \in {"Nothing"} \cup OpenedByPercent
                   [] state = CharConstant -> state' = CharClose
                   [] OTHER -> state' = Nothing
        \* only these states persist
        /\ (state'.tag = state.tag /\ state # Nothing) => state.tag \in PersistentTags
        \* a completed directive leaves the machine in Normal
        /\ Completes(state, Chr(cap[pos])) => state' = Nothing

\* C32: each of the one-byte states Percent, PushParam, SetVar, GetVar,
\* CharConstant and CharClose consumes exactly one input byte, after which the
\* machine is in a different state (Normal unless the byte opened a longer
\* directive), so the machine is never in the same one of these states for two
\* consecutive bytes; only Delay, IntConstant, FormatPattern and the four seek
\* states can persist across bytes, and after every completed directive the state
\* is Normal.
C32_OneByteStates == [][C32_ByteStep]_vars

\* %d of %p1%d has been executed from Percent and the machine is in Normal
C32_Witness ==
    /\ pc = "loop"
    /\ pos = 6
    /\ Len(cap) >= 5
    /\ SubSeq(cap, 1, 5) = Bytes(<<"%", "p", "1", "%", "d">>)
    /\ state = Nothing
    /\ output = Bytes(<<"7">>)

\* the pattern of %:-5.2d has persisted over four bytes
C32_PatternPersists ==
    /\ pc = "loop"
    /\ pos = 7
    /\ Len(cap) >= 6
    /\ SubSeq(cap, 1, 6) = Bytes(<<"%", ":", "-", "5", ".", "2">>)
    /\ state.tag = "FormatPattern"

\* the input is exhausted
AtEnd == pc = "loop" /\ pos > Len(cap)

C38_EndStep ==
    \* at the end of the input, in any state and on any stack: Ok with the bytes
    \* emitted so far
    /\ AtEnd => pc' = "returned" /\ result' = Ok(output)
    \* an error is returned at a byte only
    /\ (pc = "loop" /\ pc' \in {"returned", "panicked"} /\ result'.tag # "Ok") => AtByte

\* C38: a capability that ends in the middle of a directive is not an error: when
\* the input is exhausted in any state (after a lone %, after %p, %P or %g, after
\* %'x without its closing quote, inside %{digits without }, inside an unfinished
\* format pattern, inside a $ delay with no >, or inside a conditional skip with
\* no matching %e / %;) expand returns Ok with the bytes emitted so far; values
\* left on the operand stack are discarded without error.
C38_EndMidDirective == [][C38_EndStep]_vars

\* x%'x has returned x: the capability ended before the closing quote, with the
\* character on the stack
C38_Witness ==
    /\ pc = "returned"
    /\ cap = Bytes(<<"x", "%", "'", "x">>)
    /\ state = CharClose
    /\ stack = <<Number(120)>>
    /\ result = Ok(Bytes(<<"x">>))

\* a capability has ended inside a format pattern, another inside a delay, another
\* in a skip: each with Ok
C38_EndInPattern == pc = "returned" /\ pos > Len(cap) /\ state.tag = "FormatPattern" /\ result.tag = "Ok"

C38_EndInDelay == pc = "returned" /\ pos > Len(cap) /\ state = Delay /\ result.tag = "Ok"

C38_EndInSkip == pc = "returned" /\ pos > Len(cap) /\ state.tag = "SeekIfElse" /\ result.tag = "Ok"

C38_EndInConstant == pc = "returned" /\ pos > Len(cap) /\ state.tag = "IntConstant" /\ result.tag = "Ok"

\* the static variable A
StaticA == static_variables[0]

C37_ErrorStep ==
    \* the step that returns the error, the return to the caller and the next call
    \* leave the static variables as they are
    /\ (pc = "loop" /\ pc' = "returned" /\ result'.tag = "Err") =>
          static_variables' = static_variables
    /\ pc \in {"returned", "idle"} => static_variables' = static_variables
    \* the store of %PA
    /\ (AtByte /\ state = SetVar /\ Chr(cap[pos]) = "A") => static_variables'[0] = params[1]

\* C37: when expand returns an error, the stores to static variables made by
\* %P[A-Z] directives executed earlier in that same call are kept: only the output
\* is discarded, the context is not rolled back, and a later call on the same
\* context reads the values stored by the failed call.
C37_StoresSurviveErrors ==
    /\ [][C37_ErrorStep]_vars
    \* a call that stores p1 in A and fails: an error without output, A = p1
    /\ []((pc = "returned" /\ cap \in StoreCaps) =>
            /\ result.tag = "Err"
            /\ StaticA = params[1])
    \* a call that reads A prints what the context holds, a call that reads a
    \* prints 0
    /\ []((pc = "returned" /\ cap = ReadStatic) =>
            result = Format(StaticA, "d", DefaultFlags, FALSE))
    /\ []((pc = "returned" /\ cap = ReadDynamic) => Gives(<<"0">>))

\* X%p1%PA%Y with 5 has failed at %Y after the store, and a second call, of
\* %gA%d, has returned 5
C37_Witness ==
    /\ pc = "returned"
    /\ calls = 2
    /\ cap = ReadStatic
    /\ params = <<Number(9)>>
    /\ Gives(<<"5">>)

\* X%p1%PA%Y with 5 has returned UnrecognizedFormatOption, and A is 5
C37_FailedAfterStore ==
    /\ pc = "returned"
    /\ calls = 1
    /\ cap = Bytes(<<"X", "%", "p", "1", "%", "P", "A", "%", "Y">>)
    /\ result = Err("UnrecognizedFormatOption", "Y")
    /\ StaticA = Number(5)

\* the sign character and the digits of n padded with zeros to precision digits
SignedDigits(n, plus, precision) ==
    (IF n < 0 THEN Bytes(<<"-">>) ELSE IF plus THEN Bytes(<<"+">>) ELSE << >>)
    \o [i \in 1..(precision - Len(DecDigits(n))) |-> Ord("0")] \o DecDigits(n)

\* C39: for every precision accepted by the format-pattern parser (0..65535),
\* formatting %d with the + flag or with a negative value computes the zero-pad
\* width precision + 1 without overflowing its unsigned 16-bit type, so expand
\* returns a result for precision 65535 as it does for smaller precisions.
C39_PrecisionPlusOneFits ==
    /\ pc # "panicked"
    /\ \A plus \in BOOLEAN, precision \in SignedPrecisions :
          (pc = "returned" /\ cap = SignedCap(plus, precision)) =>
              result = Ok(SignedDigits(params[1].n, plus, precision))

\* what the code does: the claim holds for the precisions below 65535; at 65535,
\* with the + flag or a negative value, a build with overflow checks panics and
\* a build without them pads to the width 0
C39_OverflowAtMaxPrecision ==
    \A plus \in BOOLEAN, precision \in SignedPrecisions :
        LET n == params[1].n
            plus_one == plus \/ n < 0
        IN  /\ (pc = "returned" /\ cap = SignedCap(plus, precision)) =>
                  result = Ok(SignedDigits(n, plus,
                                           IF plus_one /\ precision = MaxU16 THEN 0
                                           ELSE precision))
            /\ (pc = "panicked" /\ cap = SignedCap(plus, precision)) =>
                  plus_one /\ precision = MaxU16 /\ overflow_checks = "on"

\* expand has panicked at the d of %p1%:+.65535d with 42
C39_PanicAtMaxPrecision ==
    /\ pc = "panicked"
    /\ result = Panic
    /\ cap = SignedCap(TRUE, MaxU16)
    /\ params = <<Number(42)>>
    /\ pos = Len(cap)

\* in a build without overflow checks %p1%:.65535d with -42 has returned -42
C39_UnpaddedAtMaxPrecision ==
    /\ pc = "returned"
    /\ cap = SignedCap(FALSE, MaxU16)
    /\ params = <<Number(-42)>>
    /\ overflow_checks = "off"
    /\ result = Ok(Bytes(<<"-", "4", "2">>))

\* %p1%:+.65534d with 42 has returned + and 65534 digits
C39_LargestWithoutOverflow ==
    /\ pc = "returned"
    /\ cap = SignedCap(TRUE, 65534)
    /\ result.tag = "Ok"
    /\ Len(result.value) = MaxU16

\* where the base section ends when its numbers start at an even offset
AlignedEnd ==
    BaseNumbersAt(buffer) + FieldWidth(buffer) * HeaderField(buffer, 0, 3)
        + 2 * HeaderField(buffer, 0, 4) + HeaderField(buffer, 0, 5)

\* where parse_extended must find its header
AlignedHeaderAt == Even(parsed.position)

\* C33: numeric tables start at an even offset of the buffer: after the base
\* booleans, at offset 12 + name_size + bool_count, and after the extended
\* booleans one pad byte is skipped when the offset is odd and none when it is
\* even, and the extended header is read from the first even offset at or after
\* the end of the base string pool.
C33_TablesAtEvenOffsets ==
    \A data_set \in AlignedDataSets :
        buffer = make_buffer(data_set, TRUE) =>
            /\ parsed.stage \in {"base", "done"} =>
                  /\ parsed.position = AlignedEnd
                  /\ parsed.terminfo.numbers =
                        [k \in {"cols"} |-> NumericField(buffer, BaseNumbersAt(buffer), 1)]
            /\ parsed.stage = "done" =>
                  /\ parsed.result.tag = "Ok"
                  /\ HeaderField(buffer, AlignedHeaderAt, 0) = Len(data_set.ext_booleans)
                  /\ HeaderField(buffer, AlignedHeaderAt, 1) = Len(data_set.ext_numbers)
                  /\ parsed.result.value.booleans
                        = parsed.terminfo.booleans
                          \cup {NameOf(data_set.ext_booleans[i][1]) : i \in ExtOnes(data_set)}
                  /\ \A i \in ExtPositive(data_set) :
                        parsed.result.value.numbers[NameOf(data_set.ext_numbers[i][1])]
                            = NumericField(buffer, ExtNumbersAt(buffer, AlignedHeaderAt), i)

\* parse has returned the numbers of a buffer whose base booleans end at the odd
\* offset 19, whose base string pool ends at the odd offset 27 and whose extended
\* boolean ends at the odd offset 39
C33_Witness ==
    /\ parsed.stage = "done"
    /\ HeaderField(buffer, 0, 0) = Magic1
    /\ 12 + HeaderField(buffer, 0, 1) + HeaderField(buffer, 0, 2) = 19
    /\ parsed.position = 27
    /\ HeaderField(buffer, 28, 0) = 1
    /\ parsed.result.tag = "Ok"
    /\ parsed.result.value.numbers = [k \in {"cols", "Shades"} |-> IF k = "cols" THEN 80 ELSE 1234]
    /\ NumericField(buffer, 20, 1) = 80
    /\ NumericField(buffer, 40, 1) = 1234

\* where the tables of the extended block whose header is at offset ext lie: the
\* string-value offsets, the name offsets and the pool
ExtStrsAt(buf, ext) == ExtNumbersAt(buf, ext) + FieldWidth(buf) * HeaderField(buf, ext, 1)

ExtNamesAt(buf, ext) == ExtStrsAt(buf, ext) + 2 * HeaderField(buf, ext, 2)

ExtPoolAt(buf, ext) ==
    ExtNamesAt(buf, ext)
        + 2 * (HeaderField(buf, ext, 0) + HeaderField(buf, ext, 1) + HeaderField(buf, ext, 2))

ExtPool(buf, ext) == SubSeq(buf, ExtPoolAt(buf, ext) + 1, ExtPoolAt(buf, ext) + HeaderField(buf, ext, 4))

\* the bytes of pool from the 0-based offset o up to the next NUL
TextAt(pool, o) ==
    LET nul == CHOOSE j \in o..(Len(pool) - 1) :
                   pool[j + 1] = 0 /\ \A k \in o..(j - 1) : pool[k + 1] # 0
    IN  SubSeq(pool, o + 1, nul)

\* the i-th string-value offset and the k-th name offset of the extended block
ValueOffsetOf(i) == HeaderField(buffer, ExtStrsAt(buffer, Even(parsed.position)), i - 1)

NameOffsetOf(k) == HeaderField(buffer, ExtNamesAt(buffer, Even(parsed.position)), k - 1)

\* the string entries whose value offset is not a sentinel
LiveStrings ==
    {i \in 1..HeaderField(buffer, Even(parsed.position), 2) : ~IsSentinel(ValueOffsetOf(i))}

\* the sum over the entries of a set of the length of their value plus one
RECURSIVE ValueBytes(_, _)
ValueBytes(pool, entries) ==
    IF entries = {} THEN 0
    ELSE LET i == CHOOSE e \in entries : TRUE
         IN  Len(TextAt(pool, ValueOffsetOf(i))) + 1 + ValueBytes(pool, entries \ {i})

\* C34: in the extended block the names start at the pool offset B that is the
\* sum, over the string-value offsets that are not a sentinel, of the length of
\* the NUL-terminated value at that offset plus one; a name offset is resolved
\* relative to B and a value offset relative to the start of the pool; a B
\* beyond the size of the pool makes parse fail with UnsupportedFormat.
C34_NamesAfterValues ==
    parsed.stage = "done" =>
        LET pool == ExtPool(buffer, Even(parsed.position))
            B == ValueBytes(pool, LiveStrings)
            Named(i) == NameOf(TextAt(pool, B + NameOffsetOf(i)))
        IN  IF B > Len(pool) THEN parsed.result = ParseErr("UnsupportedFormat")
            ELSE IF \E i \in LiveStrings : B + NameOffsetOf(i) >= Len(pool)
            THEN parsed.result.tag = "Err"
            ELSE /\ parsed.result.tag = "Ok"
                 /\ DOMAIN parsed.result.value.strings
                       = DOMAIN parsed.terminfo.strings \cup {Named(i) : i \in LiveStrings}
                 /\ \A i \in LiveStrings :
                       (\A j \in LiveStrings : j > i => Named(j) # Named(i)) =>
                           parsed.result.value.strings[Named(i)] = TextAt(pool, ValueOffsetOf(i))

\* both value offsets are 0, so "Hi" is counted twice and the names start at
\* offset 6 of the pool, inside the second value: parse has returned "Hi" under
\* the names found at offsets 6 and 9
C34_Witness ==
    /\ parsed.stage = "done"
    /\ LiveStrings = {1, 2}
    /\ ValueOffsetOf(1) = 0
    /\ ValueOffsetOf(2) = 0
    /\ NameOffsetOf(2) = 3
    /\ parsed.result.tag = "Ok"
    /\ DOMAIN parsed.result.value.strings = {"cbt", "ong one", " one"}
    /\ parsed.result.value.strings[" one"] = Bytes(<<"H", "i">>)

\* both value offsets are 3, so the names would start beyond the pool
C34_BeyondPool ==
    /\ parsed.stage = "done"
    /\ ValueOffsetOf(1) = 3
    /\ ValueOffsetOf(2) = 3
    /\ ValueBytes(ExtPool(buffer, Even(parsed.position)), LiveStrings) = 22
    /\ Len(ExtPool(buffer, Even(parsed.position))) = SplitPoolLen
    /\ parsed.result = ParseErr("UnsupportedFormat")

\* the counts of the extended block, its k-th boolean and its i-th number
ExtCount(k) == HeaderField(buffer, Even(parsed.position), k)

ExtBooleanOf(k) == buffer[Even(parsed.position) + 10 + k]

ExtNumberOf(i) == NumericField(buffer, ExtNumbersAt(buffer, Even(parsed.position)), i)

\* the name that the k-th name offset of the extended block gives
SlotName(k) ==
    LET pool == ExtPool(buffer, Even(parsed.position))
    IN  NameOf(TextAt(pool, ValueBytes(pool, LiveStrings) + NameOffsetOf(k)))

\* C35: the name offsets of the extended block are consumed in order, one per
\* boolean, then one per number, then one per string, whether or not the entry
\* produces output (a boolean 0, a number that is not positive, a string with a
\* sentinel offset): the k-th entry of the block is paired with the k-th name
\* offset.
C35_OneNameSlotPerEntry ==
    parsed.stage = "done" =>
        LET pool == ExtPool(buffer, Even(parsed.position))
            ones == {k \in 1..ExtCount(0) : ExtBooleanOf(k) = 1}
            positive == {i \in 1..ExtCount(1) : ExtNumberOf(i) > 0}
        IN  /\ parsed.result.tag = "Ok"
            /\ parsed.result.value.booleans
                  = parsed.terminfo.booleans \cup {SlotName(k) : k \in ones}
            /\ DOMAIN parsed.result.value.numbers
                  = DOMAIN parsed.terminfo.numbers
                    \cup {SlotName(ExtCount(0) + i) : i \in positive}
            /\ \A i \in positive :
                  parsed.result.value.numbers[SlotName(ExtCount(0) + i)] = ExtNumberOf(i)
            /\ DOMAIN parsed.result.value.strings
                  = DOMAIN parsed.terminfo.strings
                    \cup {SlotName(ExtCount(0) + ExtCount(1) + i) : i \in LiveStrings}
            /\ \A i \in LiveStrings :
                  parsed.result.value.strings[SlotName(ExtCount(0) + ExtCount(1) + i)]
                      = TextAt(pool, ValueOffsetOf(i))

\* the first entry of each kind produces no output and the second does: parse
\* has returned the second entries under the second, fourth and sixth name
C35_Witness ==
    /\ parsed.stage = "done"
    /\ ExtCount(0) = 2 /\ ExtCount(1) = 2 /\ ExtCount(2) = 2
    /\ ExtBooleanOf(1) = 0 /\ ExtBooleanOf(2) = 1
    /\ ExtNumberOf(1) = -1 /\ ExtNumberOf(2) = 7
    /\ LiveStrings = {2}
    /\ parsed.result.tag = "Ok"
    /\ parsed.result.value.booleans = {"bw", "Xb"}
    /\ parsed.result.value.numbers = [k \in {"cols", "Nb"} |-> IF k = "cols" THEN 80 ELSE 7]
    /\ DOMAIN parsed.result.value.strings = {"cbt", "Sb"}
    /\ parsed.result.value.strings["Sb"] = Bytes(<<"v">>)

\* what parse_extended made of the buffer after the base section
ExtendedOutcome == parse_extended(parsed.terminfo, buffer, parsed.position)

\* C36: an IO error of the extended block arises only while its 10-byte header
\* is read, before any extended entry is inserted: when parse returns Ok after
\* tolerating such an error, the Terminfo holds exactly the entries of the base
\* section.
C36_IoOnlyInHeader ==
    (parsed.stage = "done" /\ parsed.terminfo.number_size # 0) =>
        /\ ExtendedOutcome = ParseErr("IO") <=> Len(buffer) < Even(parsed.position) + 10
        /\ ExtendedOutcome = ParseErr("IO") => parsed.result = BaseOnly
        /\ (parsed.result.tag = "Ok" /\ parsed.result # BaseOnly) =>
              /\ ExtendedOutcome.tag = "Ok"
              /\ \E data_set \in CutDataSets : buffer = make_buffer(data_set, TRUE)

\* the buffer ends after the second field of the extended header: parse_extended
\* has failed with an IO error and parse has returned the base entries
C36_Witness ==
    /\ parsed.stage = "done"
    /\ Len(buffer) = Even(parsed.position) + 4
    /\ HeaderField(buffer, Even(parsed.position), 0) = 2
    /\ ExtendedOutcome = ParseErr("IO")
    /\ parsed.result.tag = "Ok"
    /\ parsed.result.value.booleans = {"bw"}
    /\ parsed.result.value.numbers = [k \in {"cols"} |-> 80]
    /\ DOMAIN parsed.result.value.strings = {"cbt"}

\* the extended numbers and strings that produce output under the name k
NumbersNamed(k) ==
    {i \in 1..ExtCount(1) : ExtNumberOf(i) > 0 /\ SlotName(ExtCount(0) + i) = k}

StringsNamed(k) == {i \in LiveStrings : SlotName(ExtCount(0) + ExtCount(1) + i) = k}

\* C40: parsing only adds or overwrites entries: an extended entry that produces
\* no output (a boolean 0, a number that is not positive, the cancelled value -2
\* included, a string whose value offset is absent or cancelled) neither removes
\* nor changes the base entry of its name, so every entry of the base section is
\* in the result, under its name, whenever parse returns Ok.
C40_BaseEntriesKept ==
    (parsed.stage = "done" /\ parsed.result.tag = "Ok") =>
        /\ parsed.terminfo.booleans \subseteq parsed.result.value.booleans
        /\ DOMAIN parsed.terminfo.numbers \subseteq DOMAIN parsed.result.value.numbers
        /\ DOMAIN parsed.terminfo.strings \subseteq DOMAIN parsed.result.value.strings
        /\ \A k \in DOMAIN parsed.terminfo.numbers :
              NumbersNamed(k) = {} => parsed.result.value.numbers[k] = parsed.terminfo.numbers[k]
        /\ \A k \in DOMAIN parsed.terminfo.strings :
              StringsNamed(k) = {} => parsed.result.value.strings[k] = parsed.terminfo.strings[k]

\* the extended block has bw = 0, cols = -2, it = 0, cbt absent and bel
\* cancelled, and parse has returned the five base entries as the base section
\* gave them
C40_Witness ==
    /\ parsed.stage = "done"
    /\ ExtCount(0) = 1 /\ ExtBooleanOf(1) = 0 /\ SlotName(1) = "bw"
    /\ ExtNumberOf(1) = -2 /\ SlotName(2) = "cols"
    /\ ExtNumberOf(2) = 0 /\ SlotName(3) = "it"
    /\ ValueOffsetOf(1) = 65535 /\ SlotName(4) = "cbt"
    /\ ValueOffsetOf(2) = 65534 /\ SlotName(5) = "bel"
    /\ parsed.result.tag = "Ok"
    /\ parsed.result.value.booleans = {"bw"}
    /\ parsed.result.value.numbers = [k \in {"cols", "it"} |-> IF k = "cols" THEN 80 ELSE 8]
    /\ parsed.result.value.strings["cbt"] = Bytes(<<"H", "i">>)
    /\ parsed.result.value.strings["bel"] = Bytes(<<"H", "e", "l", "l", "o">>)

====
